---- MODULE Spec2Model ----
(***************************************************************************)
(* A model of the game-rule engine of polished.py: the tetronimo (T_mo),   *)
(* the Board (cell storage, testAndPlace, winnow) and the piece            *)
(* supply of the Game (make_bag, nextPiece, the preview queue).            *)
(*                                                                         *)
(* One set of variables holds the objects' fields.  Each group of          *)
(* operations is exercised by a specification of its own, whose Init       *)
(* draws the inputs from bounded sets:                                     *)
(*   SpecPiece     T_mo.rotateLeft / T_mo.rotateRight                      *)
(*   SpecPlace     Board.testAndPlace                                      *)
(*   SpecWinnow    Board.winnow on a small board                           *)
(*   SpecWinnow22  Board.winnow on the 22 x 10 main board                  *)
(*   SpecSupply    Game.clear (supply part) / Game.nextPiece               *)
(* The Game itself (its flags, score, lines, level, timer, the held-piece  *)
(* and preview displays, and its handlers) is exercised by                 *)
(*   Spec          the Game from Game.__init__ on, event by event          *)
(*   SpecLanding   oneLineDown / dropDown on a piece about to land         *)
(*   SpecMove      moveSideways / rotatePiece                              *)
(*   SpecHold      holdCurrentPiece                                        *)
(*   SpecRound     a round: Play, Pause, timer events and keys             *)
(*   SpecReset     Reset, and the timer events after it                    *)
(*   SpecPace      a round across a change of level                        *)
(*   SpecTall      landings on a board of more than four rows              *)
(*   SpecFall      the fall of a piece while the timer goes on expiring    *)
(*   SpecSpawn     spawns on the main board of 22 rows and 10 columns      *)
(***************************************************************************)
EXTENDS Integers, Sequences, FiniteSets, TLC

VARIABLES
    board,          \* the Board object: its fields rows, cols, cells (row-
                    \* major, one shape name per cell), _current, _row, _col
    held_display,   \* Game.held_display, a Board
    preview_display,\* Game.preview_display, a Board
    game,           \* the other fields of the Game: isStarted, isPaused,
                    \* isOver, waitForNextTimer, timeStep, current_level,
                    \* current_score, lines_cleared, high_score, whether
                    \* its timer is running (timerActive) and the interval
                    \* it was last started with (timerInterval)
    toolbar,        \* which of the Play, Pause and Reset buttons of the main
                    \* window are enabled
    tmos,           \* the T_mo objects made so far by a chain of rotations
    trail,          \* the directions of those rotations ("L" / "R")
    bag_of_pieces,  \* Game.bag_of_pieces
    preview_list,   \* Game.preview_list
    drawn,          \* the shape names returned by nextPiece since clear()
    last            \* the last call observed: its name, arguments, the
                    \* state it started from and what it returned

boardVars  == <<board>>
pieceVars  == <<tmos, trail>>
supplyVars == <<bag_of_pieces, preview_list, drawn>>
gameVars   == <<held_display, preview_display, game, toolbar>>
vars == <<board, held_display, preview_display, game, toolbar, tmos, trail,
          bag_of_pieces, preview_list, drawn, last>>

(***************************************************************************)
(* Tetronimo                                                               *)
(***************************************************************************)

\* class T_ShapeNames(enum.IntEnum)
N == 0
O == 1
I == 2
T == 3
L == 4
J == 5
S == 6
Z == 7

T_ShapeNames == {N, O, I, T, L, J, S, Z}

\* The seven playable shapes: range(1,8) in make_bag.
PlayShapes == 1..7

\* T_Shapes: the spawn orientation, four <<col, row>> offsets per shape.
T_Shapes ==
    [k \in T_ShapeNames |->
        CASE k = N -> << <<0,0>>,  <<0,0>>,  <<0,0>>, <<0,0>> >>
          [] k = O -> << <<0,0>>,  <<1,0>>,  <<0,1>>, <<1,1>> >>
          [] k = I -> << <<-2,0>>, <<-1,0>>, <<0,0>>, <<1,0>> >>
          [] k = T -> << <<0,-1>>, <<-1,0>>, <<0,0>>, <<1,0>> >>
          [] k = L -> << <<1,-1>>, <<-1,0>>, <<0,0>>, <<1,0>> >>
          [] k = J -> << <<-1,-1>>,<<-1,0>>, <<0,0>>, <<1,0>> >>
          [] k = S -> << <<1,-1>>, <<0,-1>>, <<0,0>>, <<-1,0>> >>
          [] k = Z -> << <<-1,-1>>,<<0,-1>>, <<0,0>>, <<1,0>> >>]

\* T_mo.__init__: a tetronimo knows its shape name and its current coords.
\* (Its colour is presentation only.)
T_mo(t_name) == [t_name |-> t_name, coords |-> T_Shapes[t_name]]

\* T_mo.c(cell), T_mo.r(cell); cells are numbered 0..3 in the source and
\* 1..4 in a TLA+ sequence.
PieceC(tmo, i) == tmo.coords[i + 1][1]
PieceR(tmo, i) == tmo.coords[i + 1][2]

\* The global empty tetronimo, the content of every empty cell.
NO_T_mo == T_mo(N)

\* The tuple comprehension of rotateLeft: (r,-c) for (c,r).
LeftCoords(coords) == [i \in 1..4 |-> <<coords[i][2], -coords[i][1]>>]

\* A rotateRight that repeats rotateLeft's comprehension.
RightCoords_asLeft(coords) == [i \in 1..4 |-> <<coords[i][2], -coords[i][1]>>]

\* The tuple comprehension of rotateRight: (-r,c) for (c,r).
RightCoords(coords) == [i \in 1..4 |-> <<-coords[i][2], coords[i][1]>>]

\* A rotateLeft that returns the new T_mo as T_mo.__init__ made it, in the
\* spawn orientation.
rotateLeft_spawnCoords(self) ==
    [self |-> self, new |-> T_mo(self.t_name)]

\* T_mo.rotateLeft: builds a new T_mo of the same name, gives it the
\* rotated coords and returns it.  The result names both objects after the
\* call: self (the receiver) and new (the object returned).
rotateLeft(self) ==
    LET new_tmo == T_mo(self.t_name)
    IN  [self |-> self,
         new  |-> [new_tmo EXCEPT !.coords = LeftCoords(self.coords)]]

\* T_mo.rotateRight
rotateRight(self) ==
    LET new_tmo == T_mo(self.t_name)
    IN  [self |-> self,
         new  |-> [new_tmo EXCEPT !.coords = RightCoords(self.coords)]]


(***************************************************************************)
(* Board                                                                   *)
(*                                                                         *)
(* A cell of Board.cells refers to a T_mo; the model keeps the shape name  *)
(* of that T_mo.  NO_T_mo is the only T_mo named N that a Board ever       *)
(* stores, so "is NO_T_mo" is "the name is N".                             *)
(***************************************************************************)

\* Values returned by testAndPlace()
OK    == 0
TOUCH == 1
LEFT  == 2
RIGHT == 3

\* Board.clear: empty cells, no current piece.
Board_clear(self) ==
    [self EXCEPT !._current = NO_T_mo, !._col = 0, !._row = 0,
                 !.cells = [i \in 1..(self.rows * self.cols) |-> N]]

\* Board.__init__(parent, rows, columns)
Board(nrows, ncolumns) ==
    Board_clear([rows |-> nrows, cols |-> ncolumns, cells |-> <<>>,
                 _current |-> NO_T_mo, _row |-> 0, _col |-> 0])

\* Board.currentPiece / currentColumn / currentRow
currentPiece(self)  == self._current
currentColumn(self) == self._col
currentRow(self)    == self._row

\* Board.shapeInCell: cells[row*cols + col], at the 1-based place of a
\* TLA+ sequence.
shapeInCell(self, row, col) == self.cells[row * self.cols + col + 1]

\* A test that looks for an overlap with a landed cell in all four cells
\* before it looks at the margins, as the text "Testing a Move" has it.
TestCells_touchFirst(self, new_piece, new_row, new_col) ==
    LET R(i) == new_row + PieceR(new_piece, i)
        C(i) == new_col + PieceC(new_piece, i)
        Inside(i) == R(i) >= 0 /\ R(i) < self.rows /\ C(i) >= 0 /\ C(i) < self.cols
        Margin_(i) == IF C(i) < 0 THEN LEFT
                      ELSE IF C(i) >= self.cols THEN RIGHT
                      ELSE IF R(i) < 0 \/ R(i) >= self.rows THEN TOUCH
                      ELSE OK
        Bad == {i \in 0..3 : Margin_(i) # OK}
    IN  IF \E i \in 0..3 : Inside(i) /\ shapeInCell(self, R(i), C(i)) # N
        THEN TOUCH
        ELSE IF Bad = {} THEN OK
        ELSE Margin_(CHOOSE i \in Bad : \A j \in Bad : i <= j)

\* The loop with the test of the row made before the tests of the column.
RECURSIVE TestLoop_rowFirst(_, _, _, _, _)
TestLoop_rowFirst(self, new_piece, new_row, new_col, i) ==
    IF i = 4 THEN OK
    ELSE LET r == new_row + PieceR(new_piece, i)
             c == new_col + PieceC(new_piece, i)
         IN  IF r < 0 \/ r >= self.rows THEN TOUCH
             ELSE IF c < 0 THEN LEFT
             ELSE IF c >= self.cols THEN RIGHT
             ELSE IF shapeInCell(self, r, c) # N THEN TOUCH
             ELSE TestLoop_rowFirst(self, new_piece, new_row, new_col, i + 1)

TestCells_rowFirst(self, new_piece, new_row, new_col) ==
    TestLoop_rowFirst(self, new_piece, new_row, new_col, 0)

\* The loop of testAndPlace: for i in range(4), with its three early
\* returns; OK when the loop runs to its end.
RECURSIVE TestLoop(_, _, _, _, _)
TestLoop(self, new_piece, new_row, new_col, i) ==
    IF i = 4 THEN OK
    ELSE LET r == new_row + PieceR(new_piece, i)
             c == new_col + PieceC(new_piece, i)
         IN  IF c < 0 THEN LEFT
             ELSE IF c >= self.cols THEN RIGHT
             ELSE IF r < 0 \/ r >= self.rows
                     \/ shapeInCell(self, r, c) # N THEN TOUCH
             ELSE TestLoop(self, new_piece, new_row, new_col, i + 1)

TestCells(self, new_piece, new_row, new_col) ==
    TestLoop(self, new_piece, new_row, new_col, 0)

\* A testAndPlace that records the piece before it has tested it.
testAndPlace_placeFirst(self, new_piece, new_row, new_col) ==
    [self |-> [self EXCEPT !._current = new_piece,
                           !._row = new_row, !._col = new_col],
     ret  |-> TestCells(self, new_piece, new_row, new_col)]

\* Board.testAndPlace: the Board after the call and the value returned.
testAndPlace(self, new_piece, new_row, new_col) ==
    LET verdict == TestCells(self, new_piece, new_row, new_col)
    IN  IF verdict # OK
        THEN [self |-> self, ret |-> verdict]
        ELSE [self |-> [self EXCEPT !._current = new_piece,
                                    !._row = new_row, !._col = new_col],
              ret  |-> OK]

\* Board.setCell: cells[row*cols + col] = shape.
setCell(cs, ncolumns, row, col, shape) ==
    [cs EXCEPT ![row * ncolumns + col + 1] = shape]

\* Board.plant: for (c,r) in _current.coords, the cell at row r+_row, column
\* c+_col is set to the current piece.  i is the next of the four coords.
RECURSIVE PlantLoop(_, _)
PlantLoop(self, i) ==
    IF i = 4 THEN self
    ELSE PlantLoop([self EXCEPT !.cells =
                       setCell(self.cells, self.cols,
                               PieceR(self._current, i) + self._row,
                               PieceC(self._current, i) + self._col,
                               self._current.t_name)],
                   i + 1)

plant(self) == PlantLoop(self, 0)

\* The scan of winnow with a row taken as full when its first cell is
\* occupied.
RECURSIVE ScanRows_firstCell(_, _)
ScanRows_firstCell(self, row) ==
    IF row >= Len(self.cells) THEN <<>>
    ELSE (IF self.cells[row + 1] = N THEN <<>> ELSE <<row>>)
         \o ScanRows_firstCell(self, row + self.cols)

\* The first loop of winnow: for row in range(0, len(cells), cols), the
\* list of the start indices of the rows whose slice holds no NO_T_mo.
RECURSIVE ScanRows(_, _)
ScanRows(self, row) ==
    IF row >= Len(self.cells) THEN <<>>
    ELSE LET hi    == IF row + self.cols <= Len(self.cells)
                      THEN row + self.cols ELSE Len(self.cells)
             slice == SubSeq(self.cells, row + 1, hi)
         IN  (IF \E j \in 1..Len(slice) : slice[j] = N THEN <<>> ELSE <<row>>)
             \o ScanRows(self, row + self.cols)

\* del cells[row:row+ncols]
DelSlice(cs, row, ncols) ==
    SubSeq(cs, 1, row) \o SubSeq(cs, row + ncols + 1, Len(cs))

\* The deletions made from the first full row to the last, each start index
\* used as it was listed.
RECURSIVE DeleteForward(_, _, _, _)
DeleteForward(cs, full_rows, k, ncols) ==
    IF k > Len(full_rows) THEN cs
    ELSE DeleteForward(DelSlice(cs, full_rows[k], ncols), full_rows, k + 1, ncols)

DeleteRows_forward(cs, full_rows, k, ncols) ==
    DeleteForward(cs, full_rows, 1, ncols)

\* The second loop of winnow: for row in reversed(full_rows), delete the
\* row; k is the place in full_rows of the next row to delete.
RECURSIVE DeleteRows(_, _, _, _)
DeleteRows(cs, full_rows, k, ncols) ==
    IF k = 0 THEN cs
    ELSE DeleteRows(DelSlice(cs, full_rows[k], ncols), full_rows, k - 1, ncols)

\* A winnow that counts the full rows and leaves them on the board.
winnow_keepsRows(self) ==
    [self |-> self, ret |-> Len(ScanRows(self, 0))]

\* Board.winnow: the Board after the call and the count returned.
winnow(self) ==
    LET full_rows == ScanRows(self, 0)
        kept      == DeleteRows(self.cells, full_rows, Len(full_rows), self.cols)
        new_rows  == [i \in 1..(Len(full_rows) * self.cols) |-> N]
    IN  IF full_rows # <<>>
        THEN [self |-> [self EXCEPT !.cells = new_rows \o kept],
              ret  |-> Len(full_rows)]
        ELSE [self |-> self, ret |-> Len(full_rows)]

(***************************************************************************)
(* What the groups of variables hold while a specification does not use    *)
(* them.                                                                   *)
(***************************************************************************)
NoBoard    == [rows |-> 0, cols |-> 0, cells |-> <<>>,
               _current |-> NO_T_mo, _row |-> 0, _col |-> 0]
BoardIdle  == board = NoBoard
GameIdle   == /\ held_display = NoBoard /\ preview_display = NoBoard
              /\ game = <<>> /\ toolbar = <<>>
PieceIdle  == tmos = <<>> /\ trail = <<>>
SupplyIdle == bag_of_pieces = <<>> /\ preview_list = <<>> /\ drawn = <<>>
NoCall     == [op |-> "none", n |-> 0]

(***************************************************************************)
(* SpecPiece: a tetronimo of any shape is created and rotated, each        *)
(* rotation being applied to the T_mo the previous one returned (the way   *)
(* Game.rotatePiece replaces the current piece by the rotated one).        *)
(***************************************************************************)

\* The longest chain of rotations explored.
MaxRotations == 5

InitPiece ==
    /\ \E k \in T_ShapeNames : tmos = <<T_mo(k)>>
    /\ trail = <<>>
    /\ BoardIdle /\ SupplyIdle /\ GameIdle /\ last = NoCall

\* One call of rotateLeft / rotateRight on the newest T_mo.  The receiver's
\* slot is rewritten with the receiver as the call left it.
RotateCall(dir) ==
    /\ Len(trail) < MaxRotations
    /\ LET n   == Len(tmos)
           res == IF dir = "L" THEN rotateLeft(tmos[n]) ELSE rotateRight(tmos[n])
       IN  tmos' = Append([tmos EXCEPT ![n] = res.self], res.new)
    /\ trail' = Append(trail, dir)
    /\ UNCHANGED <<boardVars, supplyVars, gameVars, last>>

RotateLeftStep  == RotateCall("L")
RotateRightStep == RotateCall("R")

NextTmo == RotateLeftStep \/ RotateRightStep

SpecPiece == InitPiece /\ [][NextTmo]_vars

\* The offsets a rotation in direction dir makes of coords, written out.
Turned(dir, coords) ==
    [j \in 1..4 |->
        IF dir = "L" THEN <<coords[j][2], 0 - coords[j][1]>>
                     ELSE <<0 - coords[j][2], coords[j][1]>>]

\* C7: for every non-empty shape, rotateLeft then rotateRight of the spawn
\* shape gives the original four offsets in the original order, and so does
\* rotateRight then rotateLeft; every rotation returns a T_mo of the same
\* shape name holding the turned offsets, and leaves the receiver's offsets
\* as they were.
C7_RotationRoundTrip ==
    Len(tmos) >= 1 =>
        /\ tmos[1].coords = T_Shapes[tmos[1].t_name]
        /\ \A i \in 1..Len(trail) :
              /\ tmos[i + 1].t_name = tmos[i].t_name
              /\ tmos[i + 1].coords = Turned(trail[i], tmos[i].coords)
        /\ (Len(trail) >= 2 /\ trail[1] # trail[2] /\ tmos[1].t_name # N)
              => tmos[3].coords = T_Shapes[tmos[1].t_name]

C7_Witness ==
    /\ trail = <<"L", "R">>
    /\ tmos[1].t_name = L
    /\ tmos[2].coords = << <<-1,-1>>, <<0,1>>, <<0,0>>, <<0,-1>> >>
    /\ tmos[3].coords = T_Shapes[L]

\* C8: for a piece in any orientation, four rotateLeft in a row, or four
\* rotateRight in a row, give back exactly the offsets it started with.
C8_FourRotations ==
    \A i \in 1..Len(trail) :
        (i + 3 <= Len(trail) /\ \A j \in i..(i + 3) : trail[j] = trail[i])
            => tmos[i + 4].coords = tmos[i].coords

C8_Witness ==
    /\ trail = <<"R", "L", "L", "L", "L">>
    /\ tmos[1].t_name = S
    /\ tmos[2].coords # T_Shapes[S]
    /\ tmos[4].coords # tmos[2].coords
    /\ tmos[6].coords = tmos[2].coords

(***************************************************************************)
(* SpecPlace: testAndPlace is called on a board of PlaceRows x PlaceCols   *)
(* cells of which up to MaxFilled are occupied, with any shape in any      *)
(* orientation at any origin up to Margin cells outside the board.  The    *)
(* board has no current piece yet, or holds a piece that Game.newPiece     *)
(* spawned on it (row 1, column cols//2).                                  *)
(***************************************************************************)
PlaceRows == 3
PlaceCols == 3
MaxFilled == 1
Margin    == 1

\* The four orientations of a shape.
Orientations(k) ==
    LET t0 == T_mo(k)
        t1 == rotateLeft(t0).new
        t2 == rotateLeft(t1).new
        t3 == rotateLeft(t2).new
    IN  {t0, t1, t2, t3}

AllPieces == UNION {Orientations(k) : k \in T_ShapeNames}

\* A board whose cells at the places in filled hold a landed shape; the
\* shape differs from place to place.
FilledBoard(nrows, ncolumns, filled) ==
    [Board(nrows, ncolumns) EXCEPT
        !.cells = [i \in 1..(nrows * ncolumns) |->
                      IF i \in filled THEN ((i - 1) % 7) + 1 ELSE N]]

\* The boards a newPiece may leave: the board itself when the spawn has not
\* been made, and the board with the spawned shape as its current piece for
\* every shape that fits at row 1, column cols//2.
Spawned(b) ==
    {b} \cup {testAndPlace(b, T_mo(k), 1, b.cols \div 2).self : k \in PlayShapes}

InitPlace ==
    /\ \E filled \in SUBSET (1..(PlaceRows * PlaceCols)) :
          /\ Cardinality(filled) <= MaxFilled
          /\ board \in Spawned(FilledBoard(PlaceRows, PlaceCols, filled))
    /\ PieceIdle /\ SupplyIdle /\ GameIdle /\ last = NoCall

\* One call of Board.testAndPlace.
TestAndPlaceStep ==
    /\ last.op = "none"
    /\ \E new_piece \in AllPieces :
       \E new_row \in (0 - Margin)..(board.rows - 1 + Margin) :
       \E new_col \in (0 - Margin)..(board.cols - 1 + Margin) :
          LET res == testAndPlace(board, new_piece, new_row, new_col)
          IN  /\ board' = res.self
              /\ last' = [op |-> "testAndPlace", n |-> last.n + 1,
                          piece |-> new_piece, row |-> new_row,
                          col |-> new_col, pre |-> board, ret |-> res.ret]
    /\ UNCHANGED <<pieceVars, supplyVars, gameVars>>

NextPlace == TestAndPlaceStep

SpecPlace == InitPlace /\ [][NextPlace]_vars

\* The absolute cell i (0..3) of piece p placed with its origin at r0, c0.
AbsRow(p, r0, i) == r0 + p.coords[i + 1][2]
AbsCol(p, c0, i) == c0 + p.coords[i + 1][1]

\* The verdict on one cell alone: LEFT if its column is < 0, else RIGHT if
\* its column is >= cols, else TOUCH if its row is outside the board or the
\* grid cell is not empty, else OK.
CellVerdict(b, p, r0, c0, i) ==
    LET r == AbsRow(p, r0, i)
        c == AbsCol(p, c0, i)
    IN  CASE c < 0 -> LEFT
          [] c >= 0 /\ c >= b.cols -> RIGHT
          [] c >= 0 /\ c < b.cols /\ (r < 0 \/ r >= b.rows) -> TOUCH
          [] c >= 0 /\ c < b.cols /\ r >= 0 /\ r < b.rows
             /\ b.cells[r * b.cols + c + 1] # N -> TOUCH
          [] OTHER -> OK

FailingCells(b, p, r0, c0) == {i \in 0..3 : CellVerdict(b, p, r0, c0, i) # OK}

FirstFailing(b, p, r0, c0) ==
    CHOOSE i \in FailingCells(b, p, r0, c0) :
        \A j \in FailingCells(b, p, r0, c0) : i <= j

Placed == last.op = "testAndPlace"

LeftTopCase ==
    /\ Placed
    /\ \E i \in 0..3 : AbsCol(last.piece, last.col, i) = -1
    /\ \A i \in 0..3 : AbsCol(last.piece, last.col, i) >= -1
    /\ \E i \in 0..3 : AbsRow(last.piece, last.row, i) = -1
    /\ \A i \in 0..3 : AbsRow(last.piece, last.row, i) >= -1

\* C2 as claimed: in that case testAndPlace returns LEFT, never TOUCH.
C2_LeftBeforeTouch_Original == LeftTopCase => last.ret = LEFT

\* C2 as amended: in that case testAndPlace never returns OK, and returns
\* LEFT exactly when no cell earlier in index order than the first cell of
\* column -1 fails on its own; a cell that is both in column -1 and in
\* row -1 reports LEFT.
C2_LeftUnlessEarlierCellFails ==
    LeftTopCase =>
        LET firstLeft == CHOOSE i \in 0..3 :
                            /\ AbsCol(last.piece, last.col, i) = -1
                            /\ \A j \in 0..3 :
                                  AbsCol(last.piece, last.col, j) = -1 => i <= j
            earlier == {j \in 0..3 :
                          /\ j < firstLeft
                          /\ \/ AbsCol(last.piece, last.col, j) >= last.pre.cols
                             \/ AbsRow(last.piece, last.row, j) < 0
                             \/ AbsRow(last.piece, last.row, j) >= last.pre.rows
                             \/ last.pre.cells[AbsRow(last.piece, last.row, j) * last.pre.cols
                                       + AbsCol(last.piece, last.col, j) + 1] # N}
        IN  /\ last.ret # OK
            /\ (last.ret = LEFT) <=> (earlier = {})
            /\ (AbsRow(last.piece, last.row, firstLeft) = -1 /\ earlier = {})
                  => last.ret = LEFT

\* The J in its spawn orientation at origin (0,0): its first cell is at
\* row -1, column -1.
C2_Witness ==
    /\ LeftTopCase
    /\ last.piece = T_mo(J) /\ last.row = 0 /\ last.col = 0
    /\ last.ret = LEFT

\* C3: testAndPlace never commits partially.  When it does not return OK the
\* board (cells and current piece, row, column) is as before the call; when
\* it returns OK the current piece, row and column are the ones given and no
\* grid cell has changed.
C3_NoPartialCommit ==
    Placed =>
        /\ last.ret # OK => board = last.pre
        /\ last.ret = OK =>
              /\ board._current = last.piece
              /\ board._row = last.row
              /\ board._col = last.col
              /\ board.cells = last.pre.cells
              /\ board.rows = last.pre.rows /\ board.cols = last.pre.cols

\* A rejected call on a board that holds a current piece.
C3_Witness ==
    /\ Placed
    /\ last.ret = RIGHT
    /\ last.pre._current = T_mo(T) /\ last.pre._row = 1
    /\ last.piece.t_name = L
    /\ board._current = T_mo(T) /\ board._row = 1

(***************************************************************************)
(* SpecWinnow: winnow is called, up to MaxWinnows times in a row, on a     *)
(* board of WinnowRows x WinnowCols cells with any set of its cells        *)
(* occupied.                                                               *)
(***************************************************************************)
WinnowRows == 4
WinnowCols == 2
MaxWinnows == 2

InitWinnow ==
    /\ \E filled \in SUBSET (1..(WinnowRows * WinnowCols)) :
          board = FilledBoard(WinnowRows, WinnowCols, filled)
    /\ PieceIdle /\ SupplyIdle /\ GameIdle /\ last = NoCall

\* One call of Board.winnow.
WinnowStep ==
    /\ last.op \in {"none", "winnow"}
    /\ last.n < MaxWinnows
    /\ LET res == winnow(board)
       IN  /\ board' = res.self
           /\ last' = [op |-> "winnow", n |-> last.n + 1,
                       pre |-> board, ret |-> res.ret]
    /\ UNCHANGED <<pieceVars, supplyVars, gameVars>>

NextWinnow == WinnowStep

SpecWinnow == InitWinnow /\ [][NextWinnow]_vars

\* Row r (0 = top) of board b, as the sequence of its cells.
RowOf(b, r) == SubSeq(b.cells, r * b.cols + 1, (r + 1) * b.cols)

\* The rows of b that hold no empty cell.
FullRowsOf(b) ==
    {r \in 0..(b.rows - 1) : \A c \in 1..b.cols : RowOf(b, r)[c] # N}

EmptyRow(b) == [c \in 1..b.cols |-> N]

Winnowed == last.op = "winnow"

\* C4: winnow removes exactly the rows that hold no empty cell, contiguous
\* or not; the other rows keep their top-to-bottom order and end at the
\* bottom; as many rows at the top are empty; the board keeps its
\* rows x cols cells; the count of removed rows is returned.
C4_WinnowRemovesFullRows ==
    Winnowed =>
        LET full == FullRowsOf(last.pre)
            n    == Cardinality(full)
        IN  /\ last.ret = n
            /\ board.rows = last.pre.rows /\ board.cols = last.pre.cols
            /\ Len(board.cells) = board.rows * board.cols
            /\ \A r \in 0..(n - 1) : RowOf(board, r) = EmptyRow(board)
            /\ \A r \in (0..(last.pre.rows - 1)) \ full :
                  RowOf(board, r + Cardinality({f \in full : f > r}))
                      = RowOf(last.pre, r)

\* Two full rows that are not neighbours, and two other rows that differ.
C4_Witness ==
    /\ Winnowed /\ last.n = 1
    /\ FullRowsOf(last.pre) = {1, 3}
    /\ RowOf(last.pre, 0) # EmptyRow(board)
    /\ RowOf(last.pre, 2) # EmptyRow(board)
    /\ RowOf(last.pre, 0) # RowOf(last.pre, 2)
    /\ last.ret = 2
    /\ RowOf(board, 2) = RowOf(last.pre, 0)
    /\ RowOf(board, 3) = RowOf(last.pre, 2)

\* C6: on a board with no full row winnow returns 0 and leaves every cell as
\* it was; so a winnow that follows a winnow returns 0 and changes nothing.
C6_WinnowIdempotent ==
    Winnowed =>
        /\ FullRowsOf(last.pre) = {} => (last.ret = 0 /\ board = last.pre)
        /\ last.n >= 2 => (last.ret = 0 /\ board = last.pre)

\* The second of two calls, the first of which removed a row.
C6_Witness ==
    /\ Winnowed /\ last.n = 2
    /\ last.ret = 0 /\ board = last.pre
    /\ RowOf(board, 0) = EmptyRow(board)
    /\ \E r \in 1..(board.rows - 1) : RowOf(board, r) # EmptyRow(board)

(***************************************************************************)
(* SpecWinnow22: winnow on the main board of the Game, 22 x 10, with rows  *)
(* 3 and 7 full.  Of the other rows up to MaxMarked hold landed cells, in  *)
(* a pattern of their own that leaves at least one cell empty.             *)
(***************************************************************************)

\* self.board = Board(self,22,10)
MainRows == 22
MainCols == 10

MaxMarked == 2

\* The cells occupied in a marked row r: its first (r mod 9) + 1 columns.
MarkedCells(r) == {r * MainCols + c + 1 : c \in 0..(r % 9)}

FullCells(r) == {r * MainCols + c + 1 : c \in 0..(MainCols - 1)}

InitWinnow22 ==
    /\ \E marked \in SUBSET ((0..(MainRows - 1)) \ {3, 7}) :
          /\ Cardinality(marked) <= MaxMarked
          /\ board = FilledBoard(MainRows, MainCols,
                        FullCells(3) \cup FullCells(7)
                        \cup UNION {MarkedCells(r) : r \in marked})
    /\ PieceIdle /\ SupplyIdle /\ GameIdle /\ last = NoCall

SpecWinnow22 == InitWinnow22 /\ [][NextWinnow]_vars

\* The case of C5: the first winnow of a 22-row board in which exactly rows
\* 3 and 7 were full.
Rows3And7 ==
    /\ Winnowed /\ last.n = 1
    /\ last.pre.rows = 22
    /\ FullRowsOf(last.pre) = {3, 7}

\* C5 as claimed: winnow returns 2, the two rows at the top are empty, and
\* the rows below row 7 (rows 8..21) have moved up by 2.
C5_Rows3And7_Original ==
    Rows3And7 =>
        /\ last.ret = 2
        /\ RowOf(board, 0) = EmptyRow(board) /\ RowOf(board, 1) = EmptyRow(board)
        /\ \A r \in 8..21 : RowOf(board, r - 2) = RowOf(last.pre, r)

\* C5 as amended: winnow returns 2, rows 3 and 7 are gone, the two rows at
\* the top are empty, the rows above row 3 (rows 0..2) have moved down by 2,
\* the rows between (rows 4..6) have moved down by 1, and the rows below row
\* 7 (rows 8..21) are where they were.
C5_Rows3And7_RowsAboveMoveDown ==
    Rows3And7 =>
        /\ last.ret = 2
        /\ Len(board.cells) = 22 * board.cols
        /\ RowOf(board, 0) = EmptyRow(board) /\ RowOf(board, 1) = EmptyRow(board)
        /\ \A r \in 0..2 : RowOf(board, r + 2) = RowOf(last.pre, r)
        /\ \A r \in 4..6 : RowOf(board, r + 1) = RowOf(last.pre, r)
        /\ \A r \in 8..21 : RowOf(board, r) = RowOf(last.pre, r)
        /\ FullRowsOf(board) = {}

\* Landed cells in row 1 (above the full rows) and in row 12 (below them).
C5_Witness ==
    /\ Rows3And7
    /\ RowOf(last.pre, 1) # EmptyRow(board)
    /\ RowOf(last.pre, 12) # EmptyRow(board)
    /\ RowOf(board, 3) = RowOf(last.pre, 1)
    /\ RowOf(board, 12) = RowOf(last.pre, 12)
    /\ last.ret = 2

(***************************************************************************)
(* Piece supply of the Game                                                *)
(***************************************************************************)

\* The orders random.shuffle is taken to produce: the bag in the order of
\* its making with its last ShuffleTail pieces in any order, turned round by
\* any number of places.
ShuffleTail == 2

Shuffles ==
    LET n     == Cardinality(PlayShapes)
        fixed == n - ShuffleTail
        tails == {q \in [(fixed + 1)..n -> (fixed + 1)..n] :
                    \A i, j \in (fixed + 1)..n : q[i] = q[j] => i = j}
        perms == {[i \in 1..n |-> IF i <= fixed THEN i ELSE q[i]] : q \in tails}
    IN  {[i \in 1..n |-> p[((i - 1 + k) % n) + 1]] : p \in perms, k \in 0..(n - 1)}

\* A make_bag of the naive randomizer: the seven pieces of a bag may also
\* be of one shape.
make_bag_naive ==
    {[i \in 1..7 |-> T_mo(p[i])] :
        p \in Shuffles \cup {[i \in 1..7 |-> k] : k \in PlayShapes}}

\* Game.make_bag: the seven T_mo of range(1,8), shuffled.  The value is the
\* set of the bags a call may return.
make_bag == {[i \in 1..7 |-> T_mo(p[i])] : p \in Shuffles}

\* One of the bags make_bag may return.
SomeBag == CHOOSE bag \in make_bag : TRUE

\* A clear() that takes the preview from the bag and leaves the bag whole.
clearSupply_keepBag(bag) ==
    [preview_list |-> SubSeq(bag, 1, 5), bag_of_pieces |-> bag]

\* Game.clear, its last lines: bag is what make_bag returned; the first five
\* pieces become the preview list, the other two stay in the bag.
clearSupply(bag) ==
    [preview_list  |-> SubSeq(bag, 1, 5),
     bag_of_pieces |-> SubSeq(bag, 6, Len(bag))]

\* A nextPiece that reads the last piece of the bag and leaves it there.
nextPiece_peekBag(preview, bag, refill) ==
    LET bag1 == IF 0 = Len(bag) THEN refill ELSE bag
    IN  [ret           |-> preview[1],
         preview_list  |-> Append(Tail(preview), bag1[Len(bag1)]),
         bag_of_pieces |-> bag1]

\* A nextPiece that pops the preview list with pop() in place of pop(0).
nextPiece_popLast(preview, bag, refill) ==
    LET bag1 == IF 0 = Len(bag) THEN refill ELSE bag
    IN  [ret           |-> preview[Len(preview)],
         preview_list  |-> Append(SubSeq(preview, 1, Len(preview) - 1),
                                  bag1[Len(bag1)]),
         bag_of_pieces |-> SubSeq(bag1, 1, Len(bag1) - 1)]

\* Game.nextPiece: pops the head of the preview list, refills the bag when
\* it is empty (refill is what make_bag returns then, and is not read
\* otherwise), moves the last piece
\* of the bag to the end of the preview list and returns the popped piece.
\* (The refresh of the preview display reads the list and is left out.)
nextPiece(preview, bag, refill) ==
    LET next_piece == preview[1]
        popped     == Tail(preview)
        bag1       == IF 0 = Len(bag) THEN refill ELSE bag
    IN  [ret           |-> next_piece,
         preview_list  |-> Append(popped, bag1[Len(bag1)]),
         bag_of_pieces |-> SubSeq(bag1, 1, Len(bag1) - 1)]

(***************************************************************************)
(* SpecSupply: Game.clear() has filled the supply; nextPiece is called up  *)
(* to MaxDraws times.                                                      *)
(***************************************************************************)
MaxDraws == 14

\* The state Game.clear leaves, for every bag make_bag may return.
InitSupply ==
    /\ \E bag \in make_bag :
          /\ preview_list = clearSupply(bag).preview_list
          /\ bag_of_pieces = clearSupply(bag).bag_of_pieces
    /\ drawn = <<>>
    /\ BoardIdle /\ PieceIdle /\ GameIdle /\ last = NoCall

\* One call of Game.nextPiece.  make_bag is called, and its shuffle made,
\* only when the bag is empty.
NextPieceStep ==
    /\ Len(drawn) < MaxDraws
    /\ \E refill \in (IF 0 = Len(bag_of_pieces) THEN make_bag ELSE {<<>>}) :
          LET res == nextPiece(preview_list, bag_of_pieces, refill)
          IN  /\ preview_list' = res.preview_list
              /\ bag_of_pieces' = res.bag_of_pieces
              /\ drawn' = Append(drawn, res.ret.t_name)
    /\ UNCHANGED <<boardVars, pieceVars, gameVars, last>>

NextSupply == NextPieceStep

SpecSupply == InitSupply /\ [][NextSupply]_vars

\* The shape names of draws from..to, as a set, and how often k is among
\* them.
DrawnSet(from, to) == {drawn[i] : i \in from..to}
Times(k, from, to) == Cardinality({i \in from..to : drawn[i] = k})

\* C9: counted from clear(), the pieces that nextPiece returns fall into
\* groups of seven (draws 1-7, 8-14, ...), and every such group holds each
\* of the seven shapes exactly once.
C9_GroupsOfSeven ==
    \A g \in 0..((Len(drawn) \div 7) - 1) :
        \A k \in PlayShapes : Times(k, 7 * g + 1, 7 * g + 7) = 1

\* Fourteen draws; the second bag was shuffled into another order than the
\* first, and the two groups meet in the same shape.
C9_Witness ==
    /\ Len(drawn) = 14
    /\ drawn[7] = drawn[8]
    /\ \E i \in 1..7 : drawn[i] # drawn[7 + i]
    /\ DrawnSet(1, 7) = PlayShapes /\ DrawnSet(8, 14) = PlayShapes

\* C10 as claimed: every run of seven draws in a row, wherever it starts,
\* is a permutation of the seven shapes.
C10_EveryRunOfSeven_Original ==
    \A s \in 1..Len(drawn) :
        s + 6 <= Len(drawn) => DrawnSet(s, s + 6) = PlayShapes

\* C10 as amended: in every run of seven draws in a row, the draws that come
\* from the same group of seven (draws 7g+1..7g+7) are all different, so no
\* shape occurs more than twice in the run, and a run that starts at a group
\* boundary is a permutation of the seven shapes.
C10_RunsOfSeven ==
    \A s \in 1..Len(drawn) :
        s + 6 <= Len(drawn) =>
            /\ \A i, j \in s..(s + 6) :
                  (i # j /\ (i - 1) \div 7 = (j - 1) \div 7) => drawn[i] # drawn[j]
            /\ \A k \in PlayShapes : Times(k, s, s + 6) <= 2
            /\ (s % 7 = 1) => DrawnSet(s, s + 6) = PlayShapes

\* A run that starts at the third draw and holds one shape twice.
C10_Witness ==
    /\ Len(drawn) >= 9
    /\ \E k \in PlayShapes : Times(k, 3, 9) = 2
    /\ DrawnSet(3, 9) # PlayShapes

\* C11: after clear() the preview list holds five pieces in every state
\* between calls; a nextPiece returns the head of the list, moves the other
\* four up by one place in their order, and appends one piece taken from
\* the bag: the last piece of the bag, or, the bag being empty, one piece of
\* a new bag of the seven shapes, whose other six pieces become the bag.  So
\* the pieces leave the list in the order in which they entered it.
C11_PreviewFifo ==
    /\ [](Len(preview_list) = 5)
    /\ [][/\ drawn' = Append(drawn, preview_list[1].t_name)
          /\ SubSeq(preview_list', 1, 4) = Tail(preview_list)
          /\ Len(bag_of_pieces) > 0 =>
                /\ preview_list'[5] = bag_of_pieces[Len(bag_of_pieces)]
                /\ Append(bag_of_pieces', preview_list'[5]) = bag_of_pieces
          /\ Len(bag_of_pieces) = 0 =>
                /\ Len(bag_of_pieces') = 6
                /\ {bag_of_pieces'[i].t_name : i \in 1..6}
                      \cup {preview_list'[5].t_name} = PlayShapes
                /\ \A i \in 1..6 : bag_of_pieces'[i] = T_mo(bag_of_pieces'[i].t_name)
       ]_supplyVars

\* Three draws: the third found the bag empty and took its piece from a new
\* bag; the list holds the fourth and fifth piece of the first preview and
\* the three pieces appended since.
C11_Witness ==
    /\ Len(drawn) = 3
    /\ Len(bag_of_pieces) = 6
    /\ Len(preview_list) = 5
    /\ preview_list[5].t_name \notin {bag_of_pieces[i].t_name : i \in 1..6}
    /\ drawn[1] # preview_list[1].t_name

(***************************************************************************)
(* Game                                                                    *)
(*                                                                         *)
(* A Game is a record of its fields.  A method is an operator that takes   *)
(* the Game (self) and gives the Game after the call, with the value       *)
(* returned where there is one.  A method that may call make_bag takes the *)
(* bag that make_bag returns then (shuffled); it is not read otherwise.    *)
(* Sounds, labels and painting are left out.                               *)
(***************************************************************************)

\* Class constants of the Game.  TimeFactor = 0.875 is 7/8.
StartingSpeed == 750
LinesPerLevel == 10
TimeFactorNum == 7
TimeFactorDen == 8

\* The floor of the timer interval: max(20, ...).
MinTimeStep == 20

\* The line-clear awards (100,300,500,800)[n-1].
Awards == <<100, 300, 500, 800>>


\* StartingSpeed * TimeFactor ** level is kept exactly, as a whole part and
\* the digits of its fraction in base TimeFactorDen.  MulDigits multiplies
\* the digits from place k on by m and gives the digits and the carry.
RECURSIVE MulDigits(_, _, _)
MulDigits(digits, m, k) ==
    IF k > Len(digits) THEN [d |-> <<>>, c |-> 0]
    ELSE LET rest == MulDigits(digits, m, k + 1)
             v    == digits[k] * m + rest.c
         IN  [d |-> <<v % TimeFactorDen>> \o rest.d, c |-> v \div TimeFactorDen]

TimesFactor(x) ==
    LET f == MulDigits(x.frac, TimeFactorNum, 1)
        w == x.whole * TimeFactorNum + f.c
    IN  [whole |-> w \div TimeFactorDen, frac |-> <<w % TimeFactorDen>> \o f.d]

RECURSIVE SpeedAt(_)
SpeedAt(level) ==
    IF level = 0 THEN [whole |-> StartingSpeed, frac |-> <<>>]
    ELSE TimesFactor(SpeedAt(level - 1))

\* int(StartingSpeed * TimeFactor ** level) for the levels up to
\* TabledLevels.  The value never grows with the level and is below the
\* floor of the interval at TabledLevels, so a higher level has the interval
\* of that one.
TabledLevels == 32

SpeedTable == [level \in 0..TabledLevels |-> SpeedAt(level).whole]

\* max(20, int(Game.StartingSpeed * (Game.TimeFactor ** level)))
TimeStepAt(level) ==
    LET v == SpeedTable[IF level < TabledLevels THEN level ELSE TabledLevels]
    IN  IF v > MinTimeStep THEN v ELSE MinTimeStep

\* The refresh of the preview display in nextPiece: the board is cleared,
\* then each piece of the list is placed (row 3i+1, one less for the O,
\* column 2) and planted.
RECURSIVE PreviewLoop(_, _, _)
PreviewLoop(display, list, i) ==
    IF i >= Len(list) THEN display
    ELSE LET t == list[i + 1]
             r == IF t.t_name = O THEN (i * 3) + 1 - 1 ELSE (i * 3) + 1
         IN  PreviewLoop(plant(testAndPlace(display, t, r, 2).self), list, i + 1)

\* Game.nextPiece on the Game: the supply as nextPiece leaves it, the
\* preview display refreshed, the piece returned noted in drawn.
Game_nextPiece(self, shuffled) ==
    LET res == nextPiece(self.preview_list, self.bag_of_pieces, shuffled)
    IN  [self |-> [self EXCEPT
                      !.preview_list    = res.preview_list,
                      !.bag_of_pieces   = res.bag_of_pieces,
                      !.preview_display =
                          PreviewLoop(Board_clear(self.preview_display),
                                      res.preview_list, 0),
                      !.drawn           = Append(self.drawn, res.ret.t_name)],
         ret  |-> res.ret]

\* A clear() that leaves the held-piece display as it is.
Game_clear_keepsHeld(self, shuffled) ==
    [self EXCEPT
        !.timerActive     = FALSE,
        !.board           = Board_clear(self.board),
        !.isStarted       = FALSE,
        !.isPaused        = FALSE,
        !.isOver          = FALSE,
        !.timeStep        = StartingSpeed,
        !.current_level   = 0,
        !.current_score   = 0,
        !.lines_cleared   = 0,
        !.held_piece      = NO_T_mo,
        !.preview_display = Board_clear(self.preview_display),
        !.preview_list    = clearSupply(shuffled).preview_list,
        !.bag_of_pieces   = clearSupply(shuffled).bag_of_pieces,
        !.drawn           = <<>>]

\* Game.clear
Game_clear(self, shuffled) ==
    [self EXCEPT
        !.timerActive     = FALSE,
        !.board           = Board_clear(self.board),
        !.isStarted       = FALSE,
        !.isPaused        = FALSE,
        !.isOver          = FALSE,
        !.timeStep        = StartingSpeed,
        !.current_level   = 0,
        !.current_score   = 0,
        !.lines_cleared   = 0,
        !.held_piece      = NO_T_mo,
        !.held_display    = Board_clear(self.held_display),
        !.preview_display = Board_clear(self.preview_display),
        !.preview_list    = clearSupply(shuffled).preview_list,
        !.bag_of_pieces   = clearSupply(shuffled).bag_of_pieces,
        !.drawn           = <<>>]

\* Game.__init__(parent, high_score, sfx_dict), which ends in clear().  The
\* main board has nrows x ncolumns cells.
Game_init(nrows, ncolumns, high_score, shuffled) ==
    Game_clear([high_score       |-> high_score,
                timerActive      |-> FALSE,
                timerInterval    |-> 0,
                timeStep         |-> StartingSpeed,
                lines_cleared    |-> 0,
                waitForNextTimer |-> FALSE,
                isStarted        |-> FALSE,
                isPaused         |-> FALSE,
                isOver           |-> FALSE,
                bag_of_pieces    |-> <<>>,
                preview_list     |-> <<>>,
                board            |-> Board(nrows, ncolumns),
                held_display     |-> Board(5, 5),
                current_score    |-> 0,
                current_level    |-> 0,
                preview_display  |-> Board(15, 5),
                held_piece       |-> NO_T_mo,
                drawn            |-> <<>>],
               shuffled)

\* Game.game_over
game_over(self) ==
    [self EXCEPT
        !.timerActive = FALSE,
        !.isStarted   = FALSE,
        !.isOver      = TRUE,
        !.high_score  = IF self.high_score < self.current_score
                        THEN self.current_score ELSE self.high_score]

\* A newPiece that lets the game go on when its piece does not fit.
newPiece_neverOver(self, shuffled) ==
    LET np  == Game_nextPiece(self, shuffled)
        res == testAndPlace(np.self.board, np.ret, 1, np.self.board.cols \div 2)
    IN  IF res.ret = OK
        THEN [np.self EXCEPT !.board = res.self]
        ELSE np.self

\* Game.newPiece: the next piece goes to row 1, column cols//2; the game is
\* over when it does not fit.
newPiece(self, shuffled) ==
    LET np  == Game_nextPiece(self, shuffled)
        res == testAndPlace(np.self.board, np.ret, 1, np.self.board.cols \div 2)
    IN  IF res.ret = OK
        THEN [np.self EXCEPT !.board = res.self]
        ELSE game_over(np.self)

\* A start that does not clear a game that is over.
start_noClear(self, shuffled) ==
    LET s2 == [self EXCEPT !.isStarted = TRUE, !.timerActive = TRUE,
                           !.timerInterval = self.timeStep]
    IN  IF currentPiece(s2.board) = NO_T_mo
        THEN newPiece(s2, shuffled)
        ELSE s2

\* A start that spawns no piece.
start_noSpawn(self, shuffled) ==
    LET s1 == IF self.isOver THEN Game_clear(self, shuffled) ELSE self
    IN  [s1 EXCEPT !.isStarted = TRUE, !.timerActive = TRUE,
                   !.timerInterval = s1.timeStep]

\* Game.start
start(self, shuffled) ==
    LET s1 == IF self.isOver THEN Game_clear(self, shuffled) ELSE self
        s2 == [s1 EXCEPT !.isStarted = TRUE, !.timerActive = TRUE,
                         !.timerInterval = s1.timeStep]
    IN  IF currentPiece(s2.board) = NO_T_mo
        THEN newPiece(s2, shuffled)
        ELSE s2

\* A pause that leaves the timer running.
pause_keepsClock(self, shuffled) ==
    LET s1 == [self EXCEPT !.isPaused = ~self.isPaused]
    IN  IF s1.isPaused
        THEN s1
        ELSE start(s1, shuffled)

\* Game.pause
pause(self, shuffled) ==
    LET s1 == [self EXCEPT !.isPaused = ~self.isPaused]
    IN  IF s1.isPaused
        THEN [s1 EXCEPT !.timerActive = FALSE]
        ELSE start(s1, shuffled)

\* A oneLineDown that works out the timer interval before it has brought
\* the level up to date.
oneLineDown_staleStep(self) ==
    LET res == testAndPlace(self.board, currentPiece(self.board),
                            currentRow(self.board) + 1,
                            currentColumn(self.board))
        w   == winnow(plant(self.board))
        n   == w.ret
        s1  == [self EXCEPT !.waitForNextTimer = TRUE, !.board = w.self]
        lines_cleared == s1.lines_cleared + n
        current_level == lines_cleared \div LinesPerLevel
    IN  IF res.ret = OK
        THEN [self |-> [self EXCEPT !.board = res.self], ret |-> TRUE, n |-> 0]
        ELSE IF n # 0
        THEN [self |-> [s1 EXCEPT
                           !.lines_cleared = lines_cleared,
                           !.current_level = current_level,
                           !.current_score = s1.current_score
                               + (1 + current_level) * Awards[n],
                           !.timeStep      = TimeStepAt(s1.current_level)],
              ret  |-> FALSE, n |-> n]
        ELSE [self |-> s1, ret |-> FALSE, n |-> n]

\* A oneLineDown that reads the award at place n of the tuple, not n-1.
oneLineDown_awardAtN(self) ==
    LET res == testAndPlace(self.board, currentPiece(self.board),
                            currentRow(self.board) + 1,
                            currentColumn(self.board))
        w   == winnow(plant(self.board))
        n   == w.ret
        s1  == [self EXCEPT !.waitForNextTimer = TRUE, !.board = w.self]
        lines_cleared == s1.lines_cleared + n
        current_level == lines_cleared \div LinesPerLevel
    IN  IF res.ret = OK
        THEN [self |-> [self EXCEPT !.board = res.self], ret |-> TRUE, n |-> 0]
        ELSE IF n # 0
        THEN [self |-> [s1 EXCEPT
                           !.lines_cleared = lines_cleared,
                           !.current_level = current_level,
                           !.current_score = s1.current_score
                               + (1 + current_level)
                                 * Awards[IF n < 4 THEN n + 1 ELSE 4],
                           !.timeStep      = TimeStepAt(current_level)],
              ret  |-> FALSE, n |-> n]
        ELSE [self |-> s1, ret |-> FALSE, n |-> n]

\* A oneLineDown that leaves a piece that cannot move down in play.
oneLineDown_floats(self) ==
    LET res == testAndPlace(self.board, currentPiece(self.board),
                            currentRow(self.board) + 1,
                            currentColumn(self.board))
    IN  IF res.ret = OK
        THEN [self |-> [self EXCEPT !.board = res.self], ret |-> TRUE, n |-> 0]
        ELSE [self |-> self, ret |-> FALSE, n |-> 0]

\* Game.oneLineDown: the Game after the call, the value returned, and (n)
\* what winnow returned when the piece landed, 0 when it moved.
oneLineDown(self) ==
    LET res == testAndPlace(self.board, currentPiece(self.board),
                            currentRow(self.board) + 1,
                            currentColumn(self.board))
        w   == winnow(plant(self.board))
        n   == w.ret
        s1  == [self EXCEPT !.waitForNextTimer = TRUE, !.board = w.self]
        lines_cleared == s1.lines_cleared + n
        current_level == lines_cleared \div LinesPerLevel
    IN  IF res.ret = OK
        THEN [self |-> [self EXCEPT !.board = res.self], ret |-> TRUE, n |-> 0]
        ELSE IF n # 0
        THEN [self |-> [s1 EXCEPT
                           !.lines_cleared = lines_cleared,
                           !.current_level = current_level,
                           !.current_score = s1.current_score
                               + (1 + current_level) * Awards[n],
                           !.timeStep      = TimeStepAt(current_level)],
              ret  |-> FALSE, n |-> n]
        ELSE [self |-> s1, ret |-> FALSE, n |-> n]

\* A dropDown that adds its 2 points after every oneLineDown, the one that
\* lands the piece too.
RECURSIVE DropLoop_bonusEveryCall(_, _)
DropLoop_bonusEveryCall(self, moved) ==
    LET res == oneLineDown(self)
        s1  == [res.self EXCEPT !.current_score = @ + 2]
    IN  IF res.ret
        THEN DropLoop_bonusEveryCall(s1, moved + 1)
        ELSE [self |-> s1, moved |-> moved, n |-> res.n]

dropDown_bonusEveryCall(self) == DropLoop_bonusEveryCall(self, 0)

\* Game.dropDown: while self.oneLineDown(): current_score += 2.  moved is
\* the number of times the loop body has run.
RECURSIVE DropLoop(_, _)
DropLoop(self, moved) ==
    LET res == oneLineDown(self)
    IN  IF res.ret
        THEN DropLoop([res.self EXCEPT !.current_score = @ + 2], moved + 1)
        ELSE [self |-> res.self, moved |-> moved, n |-> res.n]

dropDown(self) == DropLoop(self, 0)

\* A moveSideways that takes one column off for either direction.
moveSideways_alwaysLeft(self, toleft) ==
    LET X   == currentColumn(self.board) - 1
        res == testAndPlace(self.board, currentPiece(self.board),
                            currentRow(self.board), X)
    IN  [self |-> [self EXCEPT !.board = res.self], ret |-> res.ret = OK]

\* A moveSideways that moves the piece without a test.
moveSideways_untested(self, toleft) ==
    LET X   == IF toleft THEN currentColumn(self.board) - 1
                         ELSE currentColumn(self.board) + 1
    IN  [self |-> [self EXCEPT !.board._col = X], ret |-> TRUE]

\* Game.moveSideways
moveSideways(self, toleft) ==
    LET X   == IF toleft THEN currentColumn(self.board) - 1
                         ELSE currentColumn(self.board) + 1
        res == testAndPlace(self.board, currentPiece(self.board),
                            currentRow(self.board), X)
    IN  [self |-> [self EXCEPT !.board = res.self], ret |-> res.ret = OK]

\* A rotatePiece that kicks the piece one place right after any result that
\* is neither OK nor RIGHT.
rotatePiece_kickOnTouch(self, toleft) ==
    LET new_piece == IF toleft THEN rotateLeft(currentPiece(self.board)).new
                               ELSE rotateRight(currentPiece(self.board)).new
        first  == testAndPlace(self.board, new_piece,
                               currentRow(self.board), currentColumn(self.board))
        kickCol == IF first.ret = RIGHT
                   THEN currentColumn(first.self) - 1
                   ELSE currentColumn(first.self) + 1
        second == testAndPlace(first.self, new_piece,
                               currentRow(first.self), kickCol)
        kicked == first.ret # OK
        result == IF kicked THEN second ELSE first
    IN  [self  |-> [self EXCEPT !.board = result.self],
         ret   |-> result.ret = OK,
         tried |-> IF kicked
                   THEN << <<currentColumn(self.board), first.ret>>,
                           <<kickCol, second.ret>> >>
                   ELSE << <<currentColumn(self.board), first.ret>> >>]

\* Game.rotatePiece: the Game after the call, the value returned, and
\* (tried) the column and the result of each testAndPlace it made.
rotatePiece(self, toleft) ==
    LET new_piece == IF toleft THEN rotateLeft(currentPiece(self.board)).new
                               ELSE rotateRight(currentPiece(self.board)).new
        first  == testAndPlace(self.board, new_piece,
                               currentRow(self.board), currentColumn(self.board))
        kickCol == IF first.ret = LEFT
                   THEN currentColumn(first.self) + 1
                   ELSE currentColumn(first.self) - 1
        second == testAndPlace(first.self, new_piece,
                               currentRow(first.self), kickCol)
        kicked == first.ret = LEFT \/ first.ret = RIGHT
        result == IF kicked THEN second ELSE first
    IN  [self  |-> [self EXCEPT !.board = result.self],
         ret   |-> result.ret = OK,
         tried |-> IF kicked
                   THEN << <<currentColumn(self.board), first.ret>>,
                           <<kickCol, second.ret>> >>
                   ELSE << <<currentColumn(self.board), first.ret>> >>]

\* A holdCurrentPiece that puts the piece into the held-piece display as a
\* new piece of its shape, in the spawn orientation.
holdCurrentPiece_holdSpawn(self, shuffled) ==
    LET held  == currentPiece(self.held_display)
        np    == Game_nextPiece(self, shuffled)
        s1    == IF held = NO_T_mo THEN np.self ELSE self
        piece_to_swap_in == IF held = NO_T_mo THEN np.ret ELSE held
        piece_to_hold    == T_mo(currentPiece(s1.board).t_name)
        res   == testAndPlace(s1.board, piece_to_swap_in,
                              currentRow(s1.board), currentColumn(s1.board))
    IN  IF res.ret = OK
        THEN [s1 EXCEPT !.board = res.self,
                        !.held_display =
                            testAndPlace(s1.held_display, piece_to_hold, 2, 2).self]
        ELSE s1

\* A holdCurrentPiece that calls nextPiece whether a piece is held or not.
holdCurrentPiece_alwaysDraws(self, shuffled) ==
    LET held  == currentPiece(self.held_display)
        np    == Game_nextPiece(self, IF shuffled = <<>> THEN SomeBag ELSE shuffled)
        s1    == np.self
        piece_to_swap_in == IF held = NO_T_mo THEN np.ret ELSE held
        piece_to_hold    == currentPiece(s1.board)
        res   == testAndPlace(s1.board, piece_to_swap_in,
                              currentRow(s1.board), currentColumn(s1.board))
    IN  IF res.ret = OK
        THEN [s1 EXCEPT !.board = res.self,
                        !.held_display =
                            testAndPlace(s1.held_display, piece_to_hold, 2, 2).self]
        ELSE s1

\* A holdCurrentPiece that plants the piece it has swapped in.
holdCurrentPiece_plants(self, shuffled) ==
    LET held  == currentPiece(self.held_display)
        np    == Game_nextPiece(self, shuffled)
        s1    == IF held = NO_T_mo THEN np.self ELSE self
        piece_to_swap_in == IF held = NO_T_mo THEN np.ret ELSE held
        piece_to_hold    == currentPiece(s1.board)
        res   == testAndPlace(s1.board, piece_to_swap_in,
                              currentRow(s1.board), currentColumn(s1.board))
    IN  IF res.ret = OK
        THEN [s1 EXCEPT !.board = plant(res.self),
                        !.held_display =
                            testAndPlace(s1.held_display, piece_to_hold, 2, 2).self]
        ELSE s1

\* Game.holdCurrentPiece
holdCurrentPiece(self, shuffled) ==
    LET held  == currentPiece(self.held_display)
        np    == Game_nextPiece(self, shuffled)
        s1    == IF held = NO_T_mo THEN np.self ELSE self
        piece_to_swap_in == IF held = NO_T_mo THEN np.ret ELSE held
        piece_to_hold    == currentPiece(s1.board)
        res   == testAndPlace(s1.board, piece_to_swap_in,
                              currentRow(s1.board), currentColumn(s1.board))
    IN  IF res.ret = OK
        THEN [s1 EXCEPT !.board = res.self,
                        !.held_display =
                            testAndPlace(s1.held_display, piece_to_hold, 2, 2).self]
        ELSE s1

\* What a handler did: the method it called (call), with what that method
\* returned and noted.
NoneCalled == [call |-> "none"]

\* A timerEvent that moves the piece down whether the flag is set or not.
timerEvent_alwaysDown(self, shuffled) ==
    IF self.isStarted
    THEN LET res == oneLineDown(self)
         IN  [self |-> res.self,
              did  |-> [call |-> "oneLineDown", ret |-> res.ret, n |-> res.n]]
    ELSE [self |-> self, did |-> NoneCalled]

\* A timerEvent that leaves the timer running as it is when it spawns the
\* next piece.
timerEvent_keepsInterval(self, shuffled) ==
    IF self.isStarted
    THEN IF ~self.waitForNextTimer
         THEN LET res == oneLineDown(self)
              IN  [self |-> res.self,
                   did  |-> [call |-> "oneLineDown", ret |-> res.ret, n |-> res.n]]
         ELSE [self |-> newPiece([self EXCEPT !.waitForNextTimer = FALSE],
                                 shuffled),
               did  |-> [call |-> "newPiece"]]
    ELSE [self |-> self, did |-> NoneCalled]

\* Game.timerEvent: the Game after the event and what the handler did.
timerEvent(self, shuffled) ==
    IF self.isStarted
    THEN IF ~self.waitForNextTimer
         THEN LET res == oneLineDown(self)
              IN  [self |-> res.self,
                   did  |-> [call |-> "oneLineDown", ret |-> res.ret, n |-> res.n]]
         ELSE [self |-> newPiece([self EXCEPT !.waitForNextTimer = FALSE,
                                              !.timerActive = TRUE,
                                              !.timerInterval = self.timeStep],
                                 shuffled),
               did  |-> [call |-> "newPiece"]]
    ELSE [self |-> self, did |-> NoneCalled]

\* The kinds of key a keyPressEvent may bring: one for each set of accepted
\* keys, and "other" for a key that is in none.
Keys == {"left", "right", "hard_drop", "soft_drop", "clockwise",
         "widdershins", "hold", "pause", "other"}

\* Game.keyPressEvent: the Game after the event and what the handler did.
keyPressEvent(self, key, shuffled) ==
    IF self.isStarted /\ currentPiece(self.board) # NO_T_mo
    THEN CASE key = "left" ->
                LET res == moveSideways(self, TRUE)
                IN  [self |-> res.self,
                     did  |-> [call |-> "moveSideways", ret |-> res.ret]]
           [] key = "right" ->
                LET res == moveSideways(self, FALSE)
                IN  [self |-> res.self,
                     did  |-> [call |-> "moveSideways", ret |-> res.ret]]
           [] key = "hard_drop" ->
                LET res == dropDown(self)
                IN  [self |-> res.self,
                     did  |-> [call |-> "dropDown", moved |-> res.moved,
                               n |-> res.n]]
           [] key = "soft_drop" ->
                LET res == oneLineDown(self)
                IN  [self |-> [res.self EXCEPT !.current_score = @ + 1],
                     did  |-> [call |-> "oneLineDown", ret |-> res.ret,
                               n |-> res.n]]
           [] key = "clockwise" ->
                LET res == rotatePiece(self, FALSE)
                IN  [self |-> res.self,
                     did  |-> [call |-> "rotatePiece", ret |-> res.ret,
                               tried |-> res.tried]]
           [] key = "widdershins" ->
                LET res == rotatePiece(self, TRUE)
                IN  [self |-> res.self,
                     did  |-> [call |-> "rotatePiece", ret |-> res.ret,
                               tried |-> res.tried]]
           [] key = "hold" ->
                [self |-> holdCurrentPiece(self, shuffled),
                 did  |-> [call |-> "holdCurrentPiece"]]
           [] key = "pause" ->
                [self |-> pause(self, shuffled), did |-> [call |-> "pause"]]
           [] OTHER -> [self |-> self, did |-> NoneCalled]
    ELSE [self |-> self, did |-> NoneCalled]

(***************************************************************************)
(* The main window (class Tetris) owns the Game and a toolbar of three     *)
(* buttons, Play, Pause and Reset, which enableButtons() enables or        *)
(* disables after a Play or a Pause click.                                 *)
(***************************************************************************)

\* Tetris.enableButtons
enableButtons(g) ==
    [pause |-> g.isStarted /\ ~g.isPaused,
     play  |-> ~g.isStarted \/ g.isPaused,
     reset |-> g.isStarted]

\* The Game as a record of the variables that hold it.
Self ==
    [board            |-> board,
     held_display     |-> held_display,
     preview_display  |-> preview_display,
     bag_of_pieces    |-> bag_of_pieces,
     preview_list     |-> preview_list,
     drawn            |-> drawn,
     high_score       |-> game.high_score,
     timerActive      |-> game.timerActive,
     timerInterval    |-> game.timerInterval,
     timeStep         |-> game.timeStep,
     lines_cleared    |-> game.lines_cleared,
     waitForNextTimer |-> game.waitForNextTimer,
     isStarted        |-> game.isStarted,
     isPaused         |-> game.isPaused,
     isOver           |-> game.isOver,
     current_score    |-> game.current_score,
     current_level    |-> game.current_level,
     held_piece       |-> game.held_piece]

\* The fields of Game g that the variable game holds.
Fields(g) ==
    [high_score       |-> g.high_score,
     timerActive      |-> g.timerActive,
     timerInterval    |-> g.timerInterval,
     timeStep         |-> g.timeStep,
     lines_cleared    |-> g.lines_cleared,
     waitForNextTimer |-> g.waitForNextTimer,
     isStarted        |-> g.isStarted,
     isPaused         |-> g.isPaused,
     isOver           |-> g.isOver,
     current_score    |-> g.current_score,
     current_level    |-> g.current_level,
     held_piece       |-> g.held_piece]

\* The variables hold Game g.
Holds(g) ==
    /\ board = g.board
    /\ held_display = g.held_display
    /\ preview_display = g.preview_display
    /\ bag_of_pieces = g.bag_of_pieces
    /\ preview_list = g.preview_list
    /\ drawn = g.drawn
    /\ game = Fields(g)

\* The variables hold Game g after the step.
Becomes(g) ==
    /\ board' = g.board
    /\ held_display' = g.held_display
    /\ preview_display' = g.preview_display
    /\ bag_of_pieces' = g.bag_of_pieces
    /\ preview_list' = g.preview_list
    /\ drawn' = g.drawn
    /\ game' = Fields(g)

\* The bags make_bag may return in a handler: it is called only by a
\* nextPiece that finds the bag empty and by clear().
Shuffled(needed) == IF needed THEN make_bag ELSE {<<>>}

\* Tetris.playAction: a click on Play.
PlayActionStep(maxEvents) ==
    /\ last.n < maxEvents
    /\ toolbar.play
    /\ \E shuffled \in Shuffled(0 = Len(bag_of_pieces) \/ game.isOver) :
          LET g == IF game.isPaused THEN pause(Self, shuffled)
                                    ELSE start(Self, shuffled)
          IN  /\ Becomes(g)
              /\ toolbar' = enableButtons(g)
              /\ last' = [op |-> "playAction", n |-> last.n + 1, pre |-> Self,
                          did |-> NoneCalled]
    /\ UNCHANGED pieceVars

\* Tetris.pauseAction: a click on Pause.
PauseActionStep(maxEvents) ==
    /\ last.n < maxEvents
    /\ toolbar.pause
    /\ \E shuffled \in Shuffled(0 = Len(bag_of_pieces) \/ game.isOver) :
          LET g == pause(Self, shuffled)
          IN  /\ Becomes(g)
              /\ toolbar' = enableButtons(g)
              /\ last' = [op |-> "pauseAction", n |-> last.n + 1, pre |-> Self,
                          did |-> NoneCalled]
    /\ UNCHANGED pieceVars

\* Tetris.resetAction: a click on Reset, confirmed: clear() then start().
\* (A click that is not confirmed does nothing.)
ResetActionStep(maxEvents) ==
    /\ last.n < maxEvents
    /\ toolbar.reset
    /\ \E shuffled \in make_bag :
          LET g == start(Game_clear(Self, shuffled), shuffled)
          IN  /\ Becomes(g)
              /\ last' = [op |-> "resetAction", n |-> last.n + 1, pre |-> Self,
                          did |-> NoneCalled]
    /\ UNCHANGED <<pieceVars, toolbar>>

\* Game.timerEvent: the timer, running, has expired.
TimerEventStep(maxEvents) ==
    /\ last.n < maxEvents
    /\ game.timerActive
    /\ \E shuffled \in Shuffled(0 = Len(bag_of_pieces)) :
          LET res == timerEvent(Self, shuffled)
          IN  /\ Becomes(res.self)
              /\ last' = [op |-> "timerEvent", n |-> last.n + 1, pre |-> Self,
                          did |-> res.did]
    /\ UNCHANGED <<pieceVars, toolbar>>

\* Game.keyPressEvent: a key of one of the kinds in keys has been pressed.
KeyPressEventStep(maxEvents, keys) ==
    /\ last.n < maxEvents
    /\ \E key \in keys :
       \E shuffled \in Shuffled(0 = Len(bag_of_pieces)
                                /\ key \in {"hold", "pause"}) :
          LET res == keyPressEvent(Self, key, shuffled)
          IN  /\ Becomes(res.self)
              /\ last' = [op |-> "keyPressEvent", n |-> last.n + 1, key |-> key,
                          pre |-> Self, did |-> res.did]
    /\ UNCHANGED <<pieceVars, toolbar>>

(***************************************************************************)
(* Spec: the main window has made its Game, on a main board of GameRows x  *)
(* GameCols cells; up to MaxEvents events follow.                          *)
(***************************************************************************)
GameRows  == 4
GameCols  == 4
MaxEvents == 2

\* Tetris.__init__: the Game is made with the high score of the settings (0
\* when there is none) and the buttons are set.
Init ==
    /\ \E shuffled \in make_bag :
          LET g == Game_init(GameRows, GameCols, 0, shuffled)
          IN  Holds(g) /\ toolbar = enableButtons(g)
    /\ PieceIdle /\ last = NoCall

Next ==
    \/ PlayActionStep(MaxEvents)
    \/ PauseActionStep(MaxEvents)
    \/ ResetActionStep(MaxEvents)
    \/ TimerEventStep(MaxEvents)
    \/ KeyPressEventStep(MaxEvents, Keys)

Spec == Init /\ [][Next]_vars

(***************************************************************************)
(* Games in play.  The specifications below start from a Game that has     *)
(* been started and played for a while: landed cells on the main board, a  *)
(* piece in play, lines cleared.  drawn holds the draws made from then on. *)
(***************************************************************************)

\* The score of a game whose lines were all cleared one at a time: the sum
\* over i in 1..lines of (1 + i // LinesPerLevel) * 100.
ScoreOfSingles(lines) ==
    LET q == lines \div LinesPerLevel
        r == lines % LinesPerLevel
    IN  Awards[1] * (lines + (LinesPerLevel * q * (q - 1)) \div 2 + q * (r + 1))

\* The seven shapes in their four orientations.
PlayPieces == UNION {Orientations(k) : k \in PlayShapes}

\* The boards that hold the landed cells of b0 and a piece in play, which
\* testAndPlace accepted where it is.
InPlay(b0) ==
    {res.self : res \in
        {r2 \in {testAndPlace(b0, p, r, c) :
                    p \in PlayPieces, r \in 0..(b0.rows - 1), c \in 0..(b0.cols - 1)} :
            r2.ret = OK}}

\* The held-piece display with piece held in it (no piece: NO_T_mo).
Holding(held) ==
    IF held = NO_T_mo THEN Board(5, 5)
    ELSE testAndPlace(Board(5, 5), held, 2, 2).self

\* A Game made and started, with the bag shuffled.
Started(nrows, ncolumns, shuffled) ==
    start(Game_init(nrows, ncolumns, 0, shuffled), <<>>)

\* The lines, level, timer interval and score of a game that has cleared
\* lines lines.
Progress(lines) ==
    [lines_cleared |-> lines,
     current_level |-> lines \div LinesPerLevel,
     timeStep      |-> TimeStepAt(lines \div LinesPerLevel),
     current_score |-> ScoreOfSingles(lines)]

\* A Game in play: the started Game g0 with b as its main board, held in
\* its held-piece display, and the progress pr.
MidGame(g0, b, held, pr) ==
    [g0 EXCEPT
        !.board         = b,
        !.held_display  = Holding(held),
        !.lines_cleared = pr.lines_cleared,
        !.current_level = pr.current_level,
        !.timeStep      = pr.timeStep,
        !.timerInterval = pr.timeStep,
        !.current_score = pr.current_score,
        !.drawn         = <<>>]

(***************************************************************************)
(* SpecLanding: a piece is in play above landed cells that fill the lowest *)
(* rows of the board but for a well of neighbouring columns; the timer     *)
(* expires or a drop key is pressed.                                       *)
(***************************************************************************)

\* The lines cleared before: none, one short of level 1, one short of the
\* level at which the timer interval reaches its floor, and beyond it.
StartLines == {0, 9, 269, 279}

\* The board whose lowest depth rows are full but for columns from..to.
WellBoard(nrows, ncolumns, depth, from, to) ==
    FilledBoard(nrows, ncolumns,
        {r * ncolumns + c + 1 :
            r \in (nrows - depth)..(nrows - 1),
            c \in (0..(ncolumns - 1)) \ (from..to)})

WellBoards(nrows, ncolumns) ==
    {WellBoard(nrows, ncolumns, depth, from, to) :
        depth \in 0..nrows, from \in 0..(ncolumns - 1), to \in 0..(ncolumns - 1)}

InitLanding ==
    /\ \E lines \in StartLines :
          LET g0 == Started(GameRows, GameCols, SomeBag)
              pr == Progress(lines)
          IN  \E b0 \in WellBoards(GameRows, GameCols) :
              \E b \in InPlay(b0) :
                 LET g == MidGame(g0, b, NO_T_mo, pr)
                 IN  Holds(g) /\ toolbar = enableButtons(g)
    /\ PieceIdle /\ last = NoCall

NextLanding ==
    \/ TimerEventStep(1)
    \/ KeyPressEventStep(1, {"hard_drop", "soft_drop"})

SpecLanding == InitLanding /\ [][NextLanding]_vars

\* The events in which a piece landed: a timerEvent or a soft-drop key whose
\* oneLineDown returned False, and a hard-drop key.
Landed ==
    /\ last.op \in {"timerEvent", "keyPressEvent"}
    /\ \/ last.did.call = "dropDown"
       \/ last.did.call = "oneLineDown" /\ ~last.did.ret

\* The points the event added for moving down: 1 for a soft-drop key, 2 for
\* each row a hard drop moved the piece.
DropBonus ==
    IF last.op = "timerEvent" THEN 0
    ELSE IF last.key = "soft_drop" THEN 1
    ELSE 2 * (board._row - last.pre.board._row)

\* The cells of board b with piece p written at origin row, col.
CellsWith(b, p, row, col) ==
    [i \in 1..Len(b.cells) |->
        IF \E j \in 0..3 : AbsRow(p, row, j) * b.cols + AbsCol(p, col, j) + 1 = i
        THEN p.t_name ELSE b.cells[i]]

\* The main board before the event, with the piece written where it landed
\* (the landing does not move the piece: the board keeps its row and column).
LandedOn ==
    [last.pre.board EXCEPT
        !.cells = CellsWith(last.pre.board, last.pre.board._current,
                            board._row, board._col)]

\* The base award for n rows.
BaseAward(n) ==
    CASE n = 1 -> 100 [] n = 2 -> 300 [] n = 3 -> 500 [] n = 4 -> 800

\* C12 as claimed: a landing that clears n rows adds base(n) x (1 + level),
\* with the level in effect when the piece landed, before this landing's
\* rows are counted.
C12_AwardAtLandingLevel ==
    (Landed /\ last.did.n \in 1..4) =>
        game.current_score - last.pre.current_score - DropBonus
            = BaseAward(last.did.n) * (1 + last.pre.current_level)

\* C13: the level is the lines cleared integer-divided by 10; the timer
\* interval is max(20, int(750 x 0.875^level)), the values of which are
\* written out here; so it lies in 20..750, and with 10 to 19 lines cleared
\* the level is 1 and the interval 656.
C13_Intervals ==
    <<750, 656, 574, 502, 439, 384, 336, 294, 257, 225, 197, 172, 151, 132,
      115, 101, 88, 77, 67, 59, 51, 45, 39, 34, 30, 26, 23, 20>>

C13_LevelAndTimeStep ==
    /\ game.current_level = game.lines_cleared \div 10
    /\ game.timeStep = IF game.current_level >= 27 THEN 20
                       ELSE C13_Intervals[game.current_level + 1]
    /\ game.timeStep \in 20..750
    /\ game.lines_cleared \in 10..19 =>
          (game.current_level = 1 /\ game.timeStep = 656)

\* A landing that brought the lines cleared from 9 to 10 or more.
C13_Witness ==
    /\ Landed
    /\ last.pre.lines_cleared = 9 /\ last.pre.timeStep = 750
    /\ game.lines_cleared >= 10
    /\ game.current_level = 1 /\ game.timeStep = 656

\* C15: a hard drop of a falling piece moves it N >= 0 rows straight down
\* (same column, same piece) over places where it fits, to a place below
\* which it does not fit; there it is planted and the full rows are removed,
\* once; the score grows by 2 x N and by the award for the rows removed, if
\* any.
C15_HardDrop ==
    (last.op = "keyPressEvent" /\ last.did.call = "dropDown"
        /\ ~last.pre.waitForNextTimer) =>
        LET pre  == last.pre.board
            p    == pre._current
            rowsDown == last.did.moved
            full == FullRowsOf(LandedOn)
            n    == Cardinality(full)
        IN  /\ rowsDown >= 0
            /\ board._current = p /\ board._col = pre._col
            /\ board._row = pre._row + rowsDown
            /\ \A k \in 1..rowsDown : FailingCells(pre, p, pre._row + k, pre._col) = {}
            /\ FailingCells(pre, p, pre._row + rowsDown + 1, pre._col) # {}
            /\ game.waitForNextTimer
            /\ last.did.n = n
            /\ game.lines_cleared = last.pre.lines_cleared + n
            /\ \A r \in 0..(n - 1) : RowOf(board, r) = EmptyRow(board)
            /\ \A r \in (0..(pre.rows - 1)) \ full :
                  RowOf(board, r + Cardinality({f \in full : f > r}))
                      = RowOf(LandedOn, r)
            /\ n = 0 => game.current_score = last.pre.current_score + 2 * rowsDown
            /\ n > 0 =>
                  \E level \in {last.pre.current_level, game.current_level} :
                      game.current_score = last.pre.current_score + 2 * rowsDown
                                           + BaseAward(n) * (1 + level)

\* A hard drop of two rows or more that removed a row.
C15_Witness ==
    /\ last.op = "keyPressEvent" /\ last.did.call = "dropDown"
    /\ last.did.moved >= 2 /\ last.did.n >= 1
    /\ last.pre.lines_cleared = 0
    /\ game.current_score = 2 * last.did.moved + BaseAward(last.did.n)
    /\ board._row = last.pre.board._row + last.did.moved

\* C14: in a game cleared and started, the first landing that completes
\* exactly one row (no line has been cleared before it) makes winnow return
\* 1 and the lines cleared 1, leaves the level at 0, and adds exactly 100 to
\* the score as the award for the line.
C14_FirstSingleLine ==
    (Landed /\ last.pre.lines_cleared = 0
        /\ Cardinality(FullRowsOf(LandedOn)) = 1) =>
        /\ last.did.n = 1
        /\ game.lines_cleared = 1
        /\ game.current_level = 0
        /\ game.current_score - last.pre.current_score - DropBonus = 100
        /\ FullRowsOf(board) = {}

\* The first piece of the game, hard-dropped at once, completes a row of the
\* board.
C14_Witness ==
    /\ Landed /\ last.n = 2 /\ last.did.call = "dropDown"
    /\ Len(drawn) = 1
    /\ last.pre.current_score = 0 /\ last.pre.lines_cleared = 0
    /\ last.did.moved = 2 /\ last.did.n = 1
    /\ game.lines_cleared = 1 /\ game.current_level = 0
    /\ game.current_score = 104

(***************************************************************************)
(* SpecMove: a piece is in play on a board with at most one landed cell; a *)
(* key to move it sideways or to rotate it is pressed.                     *)
(***************************************************************************)

\* The boards with no landed cell or one.
ObstacleBoards(nrows, ncolumns) ==
    {FilledBoard(nrows, ncolumns, {})}
    \cup {FilledBoard(nrows, ncolumns, {i}) : i \in 1..(nrows * ncolumns)}

InitMove ==
    /\ LET g0 == Started(GameRows, GameCols, SomeBag)
           pr == Progress(0)
       IN  \E b0 \in ObstacleBoards(GameRows, GameCols) :
           \E b \in InPlay(b0) :
              LET g == MidGame(g0, b, NO_T_mo, pr)
              IN  Holds(g) /\ toolbar = enableButtons(g)
    /\ PieceIdle /\ last = NoCall

NextMove ==
    KeyPressEventStep(1, {"left", "right", "clockwise", "widdershins"})

SpecMove == InitMove /\ [][NextMove]_vars

\* What a test of piece p at origin row, col on board b must say: the
\* verdict of its first failing cell, OK when no cell fails.
Verdict(b, p, row, col) ==
    IF FailingCells(b, p, row, col) = {} THEN OK
    ELSE CellVerdict(b, p, row, col, FirstFailing(b, p, row, col))

\* The event changed nothing of the Game but its main board.
OnlyBoardChanged == Self = [last.pre EXCEPT !.board = board]

\* C16: rotatePiece tests the rotated piece at the current origin; after
\* LEFT, and only then, it tests it once more at column+1; after RIGHT, and
\* only then, once more at column-1; after TOUCH it tests no more.  The
\* rotation is accepted iff the last test said OK: the rotated piece is then
\* current at the same row and at the column of that test, 0 or 1 away.
\* Otherwise the board is as it was.  Nothing else of the Game changes.
C16_RotateWithOneKick ==
    (last.op = "keyPressEvent" /\ last.did.call = "rotatePiece") =>
        LET pre   == last.pre.board
            np    == [t_name |-> pre._current.t_name,
                      coords |-> Turned(IF last.key = "widdershins" THEN "L" ELSE "R",
                                        pre._current.coords)]
            tried == last.did.tried
            v1    == Verdict(pre, np, pre._row, pre._col)
            final == tried[Len(tried)]
        IN  /\ tried[1] = <<pre._col, v1>>
            /\ Len(tried) = (IF v1 \in {LEFT, RIGHT} THEN 2 ELSE 1)
            /\ v1 = LEFT =>
                  tried[2] = <<pre._col + 1, Verdict(pre, np, pre._row, pre._col + 1)>>
            /\ v1 = RIGHT =>
                  tried[2] = <<pre._col - 1, Verdict(pre, np, pre._row, pre._col - 1)>>
            /\ last.did.ret <=> (final[2] = OK)
            /\ last.did.ret =>
                  /\ board = [pre EXCEPT !._current = np, !._col = final[1]]
                  /\ board._col - pre._col \in {-1, 0, 1}
                  /\ (board._col # pre._col) <=> (Len(tried) = 2)
            /\ ~last.did.ret => board = pre
            /\ OnlyBoardChanged

\* A rotation that was RIGHT at its place and accepted one column to the
\* left.
C16_Witness ==
    /\ last.op = "keyPressEvent" /\ last.did.call = "rotatePiece"
    /\ last.did.ret
    /\ Len(last.did.tried) = 2 /\ last.did.tried[1][2] = RIGHT
    /\ board._col = last.pre.board._col - 1
    /\ board._row = last.pre.board._row
    /\ board._current # last.pre.board._current

\* C17: moveSideways tests the current piece at column-1 (left) or column+1
\* (right), same row, same offsets.  When that place is OK the piece is
\* current there; otherwise the board is as it was.  Cells, score, lines
\* and level, and all else of the Game, are unchanged in both cases.
C17_MoveSideways ==
    (last.op = "keyPressEvent" /\ last.did.call = "moveSideways") =>
        LET pre == last.pre.board
            X   == IF last.key = "left" THEN pre._col - 1 ELSE pre._col + 1
            v   == Verdict(pre, pre._current, pre._row, X)
        IN  /\ last.did.ret <=> (v = OK)
            /\ v = OK => board = [pre EXCEPT !._col = X]
            /\ v # OK => board = pre
            /\ board.cells = pre.cells
            /\ game.current_score = last.pre.current_score
            /\ game.lines_cleared = last.pre.lines_cleared
            /\ game.current_level = last.pre.current_level
            /\ OnlyBoardChanged

\* A move to the right that a landed cell stopped.
C17_Witness ==
    /\ last.op = "keyPressEvent" /\ last.key = "right"
    /\ last.did.call = "moveSideways" /\ ~last.did.ret
    /\ Verdict(last.pre.board, last.pre.board._current,
               last.pre.board._row, last.pre.board._col + 1) = TOUCH
    /\ board = last.pre.board
    /\ board._current.t_name = S

(***************************************************************************)
(* SpecHold: a piece is in play on a board with no landed cell, or with    *)
(* one in its last place; a piece in any orientation is held, or none is;  *)
(* the key to hold is pressed, up to MaxHolds times.                       *)
(***************************************************************************)
MaxHolds == 2

HoldBoards(nrows, ncolumns) ==
    {FilledBoard(nrows, ncolumns, {}),
     FilledBoard(nrows, ncolumns, {nrows * ncolumns})}

\* The started Games the holds begin from: for every bag, the Game that has
\* drawn two pieces more since its start, the second from a bag made anew, and
\* one Game whose bag is empty, so that the next draw makes a bag.
HoldGames ==
    {Game_nextPiece(Game_nextPiece(Started(GameRows, GameCols, shuffled),
                                   <<>>).self, shuffled).self :
        shuffled \in make_bag}
    \cup {Game_nextPiece(Started(GameRows, GameCols, SomeBag), <<>>).self}

InitHold ==
    /\ \E b0 \in HoldBoards(GameRows, GameCols) :
       \E b \in InPlay(b0) :
          \/ \E g0 \in HoldGames :
                LET g == MidGame(g0, b, NO_T_mo, Progress(0))
                IN  Holds(g) /\ toolbar = enableButtons(g)
          \/ \E held \in PlayPieces :
                LET g == MidGame(Started(GameRows, GameCols, SomeBag), b, held,
                                 Progress(0))
                IN  Holds(g) /\ toolbar = enableButtons(g)
    /\ PieceIdle /\ last = NoCall

NextHold == KeyPressEventStep(MaxHolds, {"hold"})

SpecHold == InitHold /\ [][NextHold]_vars

HoldCalled == last.op = "keyPressEvent" /\ last.did.call = "holdCurrentPiece"

\* The piece a hold is to swap in: the piece held, or, none being held, the
\* head of the preview list; and whether it fits where the current piece is.
SwapIn ==
    IF last.pre.held_display._current = NO_T_mo
    THEN last.pre.preview_list[1]
    ELSE last.pre.held_display._current

SwapInFits ==
    Verdict(last.pre.board, SwapIn, last.pre.board._row, last.pre.board._col) = OK

\* C18: a hold with no piece held, when the head of the preview list fits at
\* the row and column of the current piece, makes that head current at that
\* row and column, advances the preview list by one, and leaves the piece
\* that was current in the held-piece display with the offsets it had.
C18_FirstHold ==
    (HoldCalled /\ last.pre.held_display._current = NO_T_mo /\ SwapInFits) =>
        /\ board = [last.pre.board EXCEPT !._current = last.pre.preview_list[1]]
        /\ SubSeq(preview_list, 1, 4) = Tail(last.pre.preview_list)
        /\ Len(preview_list) = 5
        /\ drawn = Append(last.pre.drawn, last.pre.preview_list[1].t_name)
        /\ held_display._current = last.pre.board._current
        /\ held_display._current.coords = last.pre.board._current.coords
        /\ held_display.cells = last.pre.held_display.cells

\* The L, turned from its spawn orientation, goes to the display as it is.
C18_Witness ==
    /\ HoldCalled /\ last.pre.held_display._current = NO_T_mo /\ SwapInFits
    /\ last.pre.board._current.t_name = L
    /\ last.pre.board._current.coords # T_Shapes[L]
    /\ held_display._current = last.pre.board._current
    /\ board._current = last.pre.preview_list[1]
    /\ board._current.t_name # L

\* C19 as claimed: a hold whose piece to swap in does not fit changes
\* nothing: the current piece and its place, the piece held, the preview
\* list and the bag are as before, a piece being held or not.
C19_RejectedHoldNoOp ==
    (HoldCalled /\ ~SwapInFits) =>
        /\ board = last.pre.board
        /\ held_display = last.pre.held_display
        /\ preview_list = last.pre.preview_list
        /\ bag_of_pieces = last.pre.bag_of_pieces

\* C20: a hold with a piece held that fits at the place of the current piece
\* swaps the two: the piece held becomes current at the same row and column
\* with the offsets it was held with, the piece that was current is held
\* with the offsets it had; the preview list and the bag are untouched.  A
\* hold with a piece held is accepted exactly when that piece fits, however
\* many holds came before it.
C20_SwapWithHeld ==
    (HoldCalled /\ last.pre.held_display._current # NO_T_mo) =>
        /\ SwapInFits =>
              /\ board = [last.pre.board EXCEPT
                             !._current = last.pre.held_display._current]
              /\ held_display._current = last.pre.board._current
              /\ held_display.cells = last.pre.held_display.cells
        /\ ~SwapInFits =>
              /\ board = last.pre.board
              /\ held_display = last.pre.held_display
        /\ preview_list = last.pre.preview_list
        /\ bag_of_pieces = last.pre.bag_of_pieces
        /\ drawn = last.pre.drawn

\* The second hold of the same fall: the first took a piece from the preview
\* list and held the J, turned; the second takes the J back as it was held.
C20_Witness ==
    /\ HoldCalled /\ last.n = 2
    /\ Len(drawn) = 1
    /\ last.pre.held_display._current.t_name = J
    /\ last.pre.held_display._current.coords # T_Shapes[J]
    /\ board._current = last.pre.held_display._current
    /\ held_display._current = last.pre.board._current
    /\ held_display._current.t_name # J

(***************************************************************************)
(* SpecRound: a round of the game.  The Game has just been made, or it is  *)
(* in play with a piece that is about to land, or that the timer has just  *)
(* landed; up to RoundEvents events follow: clicks on Play and Pause,      *)
(* expiries of the timer, keys.                                            *)
(***************************************************************************)
RoundEvents == 3

\* The pieces about to land: the I and the T in their four orientations.
RoundPieces == Orientations(I) \cup Orientations(T)

\* The landed cells: none, or the lowest row but for its first column.
RoundBoards(nrows, ncolumns) ==
    {WellBoard(nrows, ncolumns, depth, 0, 0) : depth \in 0..1}

\* The boards of InPlay(b0) whose piece is one of pieces and cannot move down.
Resting(b0, pieces) ==
    {b \in InPlay(b0) :
        /\ b._current \in pieces
        /\ Verdict(b, b._current, b._row + 1, b._col) # OK}

RoundKeys == {"left", "hard_drop", "soft_drop", "clockwise", "hold", "pause"}

\* The Game in play at the start of a round: it has drawn two pieces more
\* since its start, the second from a bag made anew.
RoundGame ==
    Game_nextPiece(Game_nextPiece(Started(GameRows, GameCols, SomeBag),
                                  <<>>).self, SomeBag).self

InitRound ==
    /\ \/ LET g == Game_init(GameRows, GameCols, 0, SomeBag)
          IN  Holds(g) /\ toolbar = enableButtons(g)
       \/ \E b0 \in RoundBoards(GameRows, GameCols) :
          \E b \in Resting(b0, RoundPieces) :
             LET g == MidGame(RoundGame, b, NO_T_mo, Progress(0))
             IN  /\ \/ Holds(g)
                    \/ Holds(timerEvent(g, <<>>).self)
                 /\ toolbar = enableButtons(g)
    /\ PieceIdle /\ last = NoCall

NextRound ==
    \/ PlayActionStep(RoundEvents)
    \/ PauseActionStep(RoundEvents)
    \/ TimerEventStep(RoundEvents)
    \/ KeyPressEventStep(RoundEvents, RoundKeys)

SpecRound == InitRound /\ [][NextRound]_vars

\* The phases of the Game.
Idle(g)     == ~g.isStarted /\ ~g.isOver /\ ~g.isPaused
Running(g)  == g.isStarted /\ ~g.isPaused
Paused(g)   == g.isStarted /\ g.isPaused
GameOver(g) == g.isOver

\* The events that called start(): a click on Play (at once, or through
\* pause() when the game was paused), and a click on Pause or a pause key
\* that found the game paused.
StartCalled ==
    \/ last.op = "playAction"
    \/ last.op = "pauseAction" /\ last.pre.isPaused
    \/ last.op = "keyPressEvent" /\ last.did.call = "pause" /\ last.pre.isPaused

\* The cells of board b that are not Empty.
Occupied(b) == {i \in 1..Len(b.cells) : b.cells[i] # N}

\* The Game holds a piece of shape k, just taken from the preview list, as
\* the current piece at row 1, column cols//2.
SpawnedAtTop(k) ==
    /\ board._current = T_mo(k)
    /\ board._row = 1
    /\ board._col = board.cols \div 2

\* The shapes of the pieces in a sequence of pieces.
ShapesIn(pieces) == {pieces[i].t_name : i \in 1..Len(pieces)}

PauseCalled ==
    \/ last.op = "pauseAction"
    \/ last.op = "playAction" /\ last.pre.isPaused
    \/ last.op = "keyPressEvent" /\ last.did.call = "pause"

\* C22: pause() called when the game is running leaves it paused with the
\* timer stopped, and changes nothing else; called when the game is paused
\* it leaves it running with the timer started, and changes nothing else
\* (board, current piece and place, score, lines, level, timer interval,
\* preview list, held piece, the flag that awaits the next piece; no piece
\* is taken).  The timer runs whenever the game is running and is stopped
\* whenever it is paused, and no timer event comes to a paused game: so a
\* pause and the resume that follows give back the Game as it was.
C22_PauseResume ==
    /\ Running(Self) => game.timerActive
    /\ Paused(Self) => ~game.timerActive
    /\ last.op = "timerEvent" => ~Paused(last.pre)
    /\ (PauseCalled /\ Running(last.pre)) =>
          Self = [last.pre EXCEPT !.isPaused = TRUE, !.timerActive = FALSE]
    /\ (PauseCalled /\ Paused(last.pre)) =>
          Self = [last.pre EXCEPT !.isPaused = FALSE, !.timerActive = TRUE,
                                  !.timerInterval = last.pre.timeStep]

\* The game was paused after a landing, before the next piece; it is resumed
\* third, with the flag still set and the landed piece still current.
C22_Witness ==
    /\ last.n = 3 /\ PauseCalled /\ Paused(last.pre)
    /\ last.pre.waitForNextTimer /\ game.waitForNextTimer
    /\ Running(Self) /\ game.timerActive
    /\ Occupied(board) # {}
    /\ board = last.pre.board /\ drawn = last.pre.drawn

\* The events that called newPiece(): a timerEvent that found the flag set,
\* and a start() that found no current piece on the board (the board of an
\* idle Game, or of a game that was over and is cleared).
SpawnCalled ==
    \/ last.op = "timerEvent" /\ last.did.call = "newPiece"
    \/ StartCalled /\ (Idle(last.pre) \/ GameOver(last.pre))

\* The board on which that newPiece() tested its piece, and the piece.
SpawnBoard ==
    IF last.op = "timerEvent" THEN last.pre.board
    ELSE Board_clear(last.pre.board)

SpawnPiece == T_mo(drawn[Len(drawn)])

\* The parts of the Game a round is played on.
PlayState(g) ==
    [board |-> g.board, current_score |-> g.current_score,
     lines_cleared |-> g.lines_cleared, current_level |-> g.current_level,
     preview_list |-> g.preview_list]

C24_Clear ==
    \A shuffled \in make_bag :
        LET g == Game_clear(Self, shuffled)
        IN  /\ Idle(g)
            /\ Occupied(g.board) = {}
            /\ currentPiece(g.board) = NO_T_mo
            /\ currentRow(g.board) = 0 /\ currentColumn(g.board) = 0
            /\ g.current_score = 0 /\ g.lines_cleared = 0 /\ g.current_level = 0
            /\ g.timeStep = 750
            /\ g.held_piece = NO_T_mo /\ currentPiece(g.held_display) = NO_T_mo
            /\ Occupied(g.held_display) = {}
            /\ ~g.timerActive
            /\ Len(g.preview_list) = 5 /\ Len(g.bag_of_pieces) = 2
            /\ ShapesIn(g.preview_list \o g.bag_of_pieces) = PlayShapes
            /\ g.preview_list \o g.bag_of_pieces \in make_bag

\* A state that clear() has much to clear in: paused, after a landing that
\* cleared a line, with a piece held and points scored.
C24_Witness ==
    /\ Paused(Self) /\ game.waitForNextTimer
    /\ game.lines_cleared > 0 /\ game.current_score > 0
    /\ held_display._current # NO_T_mo
    /\ Occupied(board) # {}
    /\ \E shuffled \in make_bag :
          /\ Game_clear(Self, shuffled).board # board
          /\ Game_clear(Self, shuffled).preview_list # preview_list

\* C25: an event in which the piece lands takes no piece from the preview
\* list, leaves the landed piece as the current piece and sets the flag
\* waitForNextTimer; the flag is set by a landing only.  A timer event that
\* finds the flag set calls newPiece() and not oneLineDown(): it takes one
\* piece, the head of the preview list, changes no cell of the board, makes
\* that piece current at row 1, column cols//2 or ends the game, and clears
\* the flag.  A timer event that finds the flag clear, the game being
\* started, calls oneLineDown() and takes no piece.
C25_DeferredSpawn ==
    /\ Landed =>
          /\ game.waitForNextTimer
          /\ drawn = last.pre.drawn
          /\ preview_list = last.pre.preview_list
          /\ board._current = last.pre.board._current
    /\ (last.op # "none" /\ game.waitForNextTimer /\ ~last.pre.waitForNextTimer)
          => Landed
    /\ (last.op = "timerEvent" /\ last.pre.waitForNextTimer) =>
          /\ last.did.call = "newPiece"
          /\ ~game.waitForNextTimer
          /\ drawn = Append(last.pre.drawn, last.pre.preview_list[1].t_name)
          /\ SubSeq(preview_list, 1, 4) = Tail(last.pre.preview_list)
          /\ board.cells = last.pre.board.cells
          /\ \/ SpawnedAtTop(last.pre.preview_list[1].t_name) /\ Running(Self)
             \/ GameOver(Self) /\ board = last.pre.board
    /\ (last.op = "timerEvent" /\ ~last.pre.waitForNextTimer) =>
          /\ last.did.call = "oneLineDown"
          /\ drawn = last.pre.drawn
          /\ last.did.ret =>
                /\ board = [last.pre.board EXCEPT !._row = @ + 1]
                /\ ~game.waitForNextTimer

\* Landing, spawn, gravity: the timer lands a piece and clears a line, its
\* next expiry spawns the next piece, the one after moves that piece down.
C25_Witness ==
    /\ last.n = 3 /\ last.op = "timerEvent"
    /\ last.did.call = "oneLineDown" /\ last.did.ret
    /\ last.pre.board._row = 1 /\ board._row = 2
    /\ Len(drawn) = 1
    /\ game.lines_cleared = 1

\* The cells of the main board under the current piece.
PieceCells ==
    {<<AbsRow(board._current, board._row, i),
       AbsCol(board._current, board._col, i)>> : i \in 0..3}

\* C26: in every state in which the game is started and the flag
\* waitForNextTimer is clear, the four cells of the current piece are on the
\* board (rows 0..rows-1, columns 0..cols-1) and Empty in the cells of the
\* board: the piece in play is no part of the cells and lies on no landed
\* cell.
C26_FallingPieceIsFree ==
    (game.isStarted /\ ~game.waitForNextTimer) =>
        /\ board._current # NO_T_mo
        /\ Cardinality(PieceCells) = 4
        /\ \A rc \in PieceCells :
              /\ rc[1] \in 0..(board.rows - 1)
              /\ rc[2] \in 0..(board.cols - 1)
              /\ shapeInCell(board, rc[1], rc[2]) = N

\* The piece in play has been moved left, beside landed cells.
C26_Witness ==
    /\ last.op = "keyPressEvent" /\ last.did.call = "moveSideways" /\ last.did.ret
    /\ game.isStarted /\ ~game.waitForNextTimer
    /\ Occupied(board) # {}
    /\ \E rc \in PieceCells :
          rc[2] > 0 /\ shapeInCell(board, rc[1], rc[2] - 1) # N

\* C27: whenever the game is started the main board has a current piece
\* that is not NO_T_mo; and every event in which the piece lands, so that
\* plant() is called, finds such a piece on the board and ends with the four
\* cells that plant() wrote on the board (rows 0..rows-1, columns
\* 0..cols-1).
C27_PlantHasPiece ==
    /\ game.isStarted => board._current # NO_T_mo
    /\ Landed =>
          /\ last.pre.board._current # NO_T_mo
          /\ board._current = last.pre.board._current
          /\ \A rc \in PieceCells :
                /\ rc[1] \in 0..(board.rows - 1)
                /\ rc[2] \in 0..(board.cols - 1)

\* A piece that the timer spawned in this round is dropped and planted.
C27_Witness ==
    /\ Landed /\ last.did.call = "dropDown"
    /\ Len(drawn) = 1 /\ board._current = T_mo(drawn[1])
    /\ board._row > 1
    /\ \A rc \in PieceCells :
          shapeInCell(board, rc[1], rc[2]) = board._current.t_name

\* The lines cleared, the level and the timer interval of Game g.
Pace(g) ==
    [lines_cleared |-> g.lines_cleared, current_level |-> g.current_level,
     timeStep |-> g.timeStep]

\* The events that moved, turned or swapped the piece, or tried to, without
\* a landing: a sideways key, a rotation key, a hold key, and a timer event
\* or soft-drop key whose oneLineDown returned True.
MovedOnly ==
    /\ last.op \in {"timerEvent", "keyPressEvent"}
    /\ \/ last.did.call \in {"moveSideways", "rotatePiece", "holdCurrentPiece"}
       \/ last.did.call = "oneLineDown" /\ last.did.ret

\* C28: a step down that succeeds, a sideways move, a rotation and a hold,
\* accepted or rejected, change no cell of the main board and leave
\* lines_cleared, current_level and timeStep as they are; the cells of the
\* main board change only in an event in which the piece lands (plant,
\* winnow) or clear() is called.
C28_CellsFrame ==
    /\ MovedOnly =>
          /\ board.cells = last.pre.board.cells
          /\ Pace(Self) = Pace(last.pre)
    /\ (last.op # "none" /\ board.cells # last.pre.board.cells) =>
          \/ Landed
          \/ StartCalled /\ GameOver(last.pre)

\* A hold is accepted on a board with landed cells: another piece is in
\* play, the cells are as they were.
C28_Witness ==
    /\ MovedOnly /\ last.did.call = "holdCurrentPiece"
    /\ board._current # last.pre.board._current
    /\ Occupied(board) # {}
    /\ board.cells = last.pre.board.cells
    /\ ~game.waitForNextTimer

\* C29 as claimed, event by event: the landing of a piece in play adds its
\* four cells and takes away cols cells for each line it clears, so that the
\* count of cells that are not Empty stays 4 x (pieces landed) - cols x
\* lines_cleared; and a key that comes after the landing, before the timer
\* spawns the next piece, plants nothing more: the count of cells and
\* lines_cleared stay as they are.  (In a round the flag is set at the start
\* only when the timer has just landed the piece.)
C29_PlantedOnce ==
    /\ (Landed /\ ~last.pre.waitForNextTimer) =>
          Cardinality(Occupied(board)) =
              Cardinality(Occupied(last.pre.board)) + 4
                  - board.cols * (game.lines_cleared - last.pre.lines_cleared)
    /\ (last.op = "keyPressEvent" /\ last.n = 1 /\ last.pre.waitForNextTimer) =>
          /\ Cardinality(Occupied(board)) = Cardinality(Occupied(last.pre.board))
          /\ game.lines_cleared = last.pre.lines_cleared

(***************************************************************************)
(* SpecReset: the Game is as at the start of a round (just made, in play   *)
(* with a piece about to land, or with a piece just landed); Reset is      *)
(* clicked and confirmed, and the timer expires after it.                  *)
(***************************************************************************)
InitReset == InitRound

\* The timer events looked at are those that follow the Reset.
NextReset ==
    \/ ResetActionStep(1)
    \/ last.op \in {"resetAction", "timerEvent"} /\ TimerEventStep(RoundEvents)

SpecReset == InitReset /\ [][NextReset]_vars

\* C30 as claimed: clear() followed by start() leaves one piece taken from
\* the preview list as the current piece at row 1, column cols//2 of an
\* empty board; the first timer event after it moves that piece down one
\* row and takes no piece: the piece that start() spawned is still the
\* current piece and one piece has been taken in all.
C30_ResetThenTick ==
    /\ last.op = "resetAction" =>
          /\ Running(Self) /\ Len(drawn) = 1 /\ SpawnedAtTop(drawn[1])
          /\ Occupied(board) = {}
    /\ (last.op = "timerEvent" /\ last.n = 2) =>
          /\ board = [last.pre.board EXCEPT !._row = @ + 1]
          /\ board._current = T_mo(drawn[1])
          /\ drawn = last.pre.drawn /\ Len(drawn) = 1
          /\ preview_list = last.pre.preview_list

\* C31 as claimed: a key to move, turn, drop or hold the piece that comes
\* while the game is paused is not acted on: the main board with its
\* current piece and place, the score, the preview list and the held-piece
\* display are as before.
C31_PausedKeysIgnored ==
    (last.op = "keyPressEvent" /\ Paused(last.pre) /\ last.key # "pause") =>
        /\ board = last.pre.board
        /\ game.current_score = last.pre.current_score
        /\ preview_list = last.pre.preview_list
        /\ held_display = last.pre.held_display

(***************************************************************************)
(* SpecPace: a round that begins one line short of the next level, with a  *)
(* piece about to land or just landed; timer events, drops, holds and      *)
(* pauses follow.                                                          *)
(***************************************************************************)
PaceKeys == {"hard_drop", "soft_drop", "hold", "pause"}

InitPace ==
    /\ \E b0 \in RoundBoards(GameRows, GameCols) :
       \E b \in Resting(b0, RoundPieces) :
          LET g == MidGame(RoundGame, b, NO_T_mo, Progress(LinesPerLevel - 1))
          IN  /\ \/ Holds(g)
                 \/ Holds(timerEvent(g, <<>>).self)
              /\ toolbar = enableButtons(g)
    /\ PieceIdle /\ last = NoCall

NextPace ==
    \/ PlayActionStep(RoundEvents)
    \/ PauseActionStep(RoundEvents)
    \/ TimerEventStep(RoundEvents)
    \/ KeyPressEventStep(RoundEvents, PaceKeys)

SpecPace == InitPace /\ [][NextPace]_vars

\* C32: whenever the timer is running and the flag waitForNextTimer is
\* clear, the interval the timer was last started with is the current
\* timeStep.  The timer event that spawns the piece after a landing starts
\* the timer with the timeStep the landing left, and a resume starts it with
\* the current timeStep.
C32_IntervalIsTimeStep ==
    /\ (game.timerActive /\ ~game.waitForNextTimer) =>
          game.timerInterval = game.timeStep
    /\ (last.op = "timerEvent" /\ last.did.call = "newPiece" /\ game.timerActive) =>
          game.timerInterval = last.pre.timeStep
    /\ (PauseCalled /\ Paused(last.pre)) =>
          game.timerActive /\ game.timerInterval = last.pre.timeStep

\* The landing brought the game to level 1; the timer event after it spawns
\* the next piece and starts the timer with the new interval.
C32_Witness ==
    /\ last.op = "timerEvent" /\ last.did.call = "newPiece"
    /\ game.current_level = 1 /\ game.timeStep = 656
    /\ last.pre.timerInterval = 750 /\ game.timerInterval = 656
    /\ game.timerActive /\ ~game.waitForNextTimer

(***************************************************************************)
(* SpecTall: a board taller than a piece is long, its lowest rows full but *)
(* for a well one column wide; a piece is in play, and timer events and    *)
(* keys follow until the next piece is in play.                            *)
(***************************************************************************)
TallRows   == 6
TallEvents == 3
TallKeys   == {"left", "hard_drop", "soft_drop"}
TallPieces == Orientations(I) \cup Orientations(J)

TallBoards ==
    {WellBoard(TallRows, GameCols, depth, from, from) :
        depth \in {0, TallRows - 2, TallRows - 1}, from \in 0..(GameCols - 1)}

InitTall ==
    /\ \E b0 \in TallBoards :
       \E b \in {b1 \in InPlay(b0) : b1._current \in TallPieces} :
          LET g == MidGame(Game_nextPiece(
                               Game_nextPiece(Started(TallRows, GameCols, SomeBag),
                                              <<>>).self, SomeBag).self,
                           b, NO_T_mo, Progress(0))
          IN  Holds(g) /\ toolbar = enableButtons(g)
    /\ PieceIdle /\ last = NoCall

NextTall ==
    \/ TimerEventStep(TallEvents)
    \/ KeyPressEventStep(TallEvents, TallKeys)

SpecTall == InitTall /\ [][NextTall]_vars

\* The rows of board b that hold no empty cell.
FullRows(b) ==
    {r \in 0..(b.rows - 1) : \A c \in 0..(b.cols - 1) : b.cells[r * b.cols + c + 1] # N}

\* C33: the winnow of every landing returns a count from 0 to 4, so that
\* the award table is indexed only at 0 to 3; this holds too for the
\* landings that keys cause between a landing and the next spawn.  No full
\* row is left on the board.
C33_WinnowAtMostFour ==
    /\ Landed =>
          /\ last.did.n \in 0..4
          /\ last.did.n # 0 => (last.did.n - 1) \in 0..(Len(Awards) - 1)
    /\ FullRows(board) = {}

\* A landing cleared four rows of the tall board, and a key pressed before
\* the next spawn landed the same piece again and cleared another row.
C33_Witness ==
    /\ Landed /\ last.op = "keyPressEvent" /\ last.n = 2
    /\ last.pre.waitForNextTimer /\ last.pre.lines_cleared = 4
    /\ last.did.n = 1 /\ game.lines_cleared = 5

\* C34 as claimed: the soft-drop bonus is per row descended.  A soft-drop
\* key that moves the piece down one row adds exactly 1 to the score; a
\* soft-drop key that lands the piece adds the award for the rows cleared,
\* if any, and nothing else.
C34_SoftDropPerRow ==
    (last.op = "keyPressEvent" /\ last.key = "soft_drop"
        /\ last.did.call = "oneLineDown") =>
        IF last.did.ret
        THEN /\ board._row = last.pre.board._row + 1
             /\ game.current_score = last.pre.current_score + 1
        ELSE game.current_score = last.pre.current_score
                 + (IF last.did.n = 0 THEN 0
                    ELSE (1 + game.current_level) * BaseAward(last.did.n))

\* C35: in the pieces that nextPiece returns after clear(), no shape comes
\* more than twice in a row, and between two occurrences of a shape that
\* follow one another there are at most 12 other pieces: every shape is
\* among any 13 draws in a row.
C35_RepeatsAndDroughts ==
    /\ \A i \in 1..Len(drawn) :
          i + 2 <= Len(drawn) =>
              ~(drawn[i] = drawn[i + 1] /\ drawn[i + 1] = drawn[i + 2])
    /\ \A i, j \in 1..Len(drawn) :
          (i < j /\ drawn[i] = drawn[j]
              /\ \A m \in (i + 1)..(j - 1) : drawn[m] # drawn[i]) => j - i - 1 <= 12
    /\ \A s \in 1..Len(drawn) :
          s + 12 <= Len(drawn) => DrawnSet(s, s + 12) = PlayShapes

\* Fourteen draws: one shape came twice in a row where two bags meet, and
\* another came first and last, with the 12 other draws between.
C35_Witness ==
    /\ Len(drawn) = 14
    /\ drawn[7] = drawn[8]
    /\ drawn[1] = drawn[14]
    /\ \A m \in 2..13 : drawn[m] # drawn[1]

(***************************************************************************)
(* SpecFall: a piece has been spawned at the top of a tall board; up to    *)
(* FallKeys events come while keys may be pressed, and the timer goes on   *)
(* expiring after them for as many events as a fall takes.  The timer,     *)
(* while it runs, expires again and again (QBasicTimer repeats).           *)
(***************************************************************************)
FallKeys   == 2
FallEvents == FallKeys + TallRows + 1
FallKinds  == {"left", "clockwise", "hold", "soft_drop", "hard_drop", "pause"}
FallBoards == {WellBoard(TallRows, GameCols, depth, from, from) :
                  depth \in {0, TallRows - 3}, from \in {0, GameCols - 1}}
FallGame   == Game_nextPiece(Game_nextPiece(Started(TallRows, GameCols, SomeBag),
                                            <<>>).self, SomeBag).self

InitFall ==
    /\ \E b0 \in FallBoards : \E k \in PlayShapes : \E held \in {NO_T_mo, T_mo(O)} :
          LET res == testAndPlace(b0, T_mo(k), 1, b0.cols \div 2)
              g   == MidGame(FallGame, res.self, held, Progress(0))
          IN  /\ res.ret = OK
              /\ Holds(g) /\ toolbar = enableButtons(g)
    /\ PieceIdle /\ last = NoCall

NextFall ==
    \/ TimerEventStep(FallEvents)
    \/ KeyPressEventStep(FallKeys, FallKinds)

\* The timer event can be taken: the guard of TimerEventStep(FallEvents).
TimerMayExpire == last.n < FallEvents /\ game.timerActive

\* Weak fairness of the timer event, WF_vars(TimerEventStep(FallEvents)),
\* written out with the guard in the place of ENABLED: a timer that runs
\* expires.
TimerExpires ==
    []<>(~TimerMayExpire) \/ []<><<TimerEventStep(FallEvents)>>_vars

SpecFall == InitFall /\ [][NextFall]_vars /\ TimerExpires

\* A piece is falling: the game runs, is not paused and does not wait for
\* the timer to spawn, and the events a fall takes are still to come.
Falling ==
    /\ game.isStarted /\ ~game.isPaused /\ ~game.waitForNextTimer
    /\ board._current # NO_T_mo
    /\ last.n <= FallKeys

\* What an event did to the row of the piece in play.
RowAfterEvent ==
    (last.op \in {"timerEvent", "keyPressEvent"} /\ last.pre.isStarted
        /\ last.pre.board._current # NO_T_mo) =>
        /\ last.did.call # "newPiece" => board._row >= last.pre.board._row
        /\ last.did.call \in {"moveSideways", "rotatePiece", "holdCurrentPiece",
                              "pause", "none"} => board._row = last.pre.board._row
        /\ last.did.call = "oneLineDown" =>
              IF last.did.ret
              THEN board._row = last.pre.board._row + 1 /\ ~game.waitForNextTimer
              ELSE board._row = last.pre.board._row /\ game.waitForNextTimer
        /\ last.did.call = "dropDown" => game.waitForNextTimer

\* C36: while the timer goes on expiring and the game runs unpaused, the
\* piece in play lands.  The row of the piece never decreases: a move, a
\* rotation and a hold keep it, a timer event that moves the piece adds 1;
\* the row lies between 1, where the piece is spawned, and rows - 1, so a
\* piece lands within rows timer events of its spawn.  The timer event
\* after a landing spawns the next piece at row 1 or ends the game.
C36_PieceLands ==
    /\ [](RowAfterEvent)
    /\ []((game.isStarted /\ board._current # NO_T_mo) =>
             (1 <= board._row /\ board._row <= board.rows - 1))
    /\ []((last.op = "timerEvent" /\ last.pre.isStarted /\ last.pre.waitForNextTimer) =>
             /\ last.did.call = "newPiece"
             /\ \/ game.isOver /\ ~game.isStarted
                \/ /\ board._row = 1 /\ ~game.waitForNextTimer
                   /\ board._current = SpawnPiece)
    /\ Falling ~> (game.waitForNextTimer \/ game.isPaused)

\* A piece spawned at row 1 of the empty board was moved down by the timer
\* alone, row by row, and landed on the bottom in the event that followed
\* rows - 2 moves.
C36_Witness ==
    /\ last.op = "timerEvent" /\ last.did.call = "oneLineDown" /\ ~last.did.ret
    /\ last.n = TallRows - 1
    /\ game.waitForNextTimer /\ board._row = TallRows - 1

\* The cells of the piece last tested that lie on an occupied cell of the
\* board.
Overlapping ==
    {i \in 0..3 :
        /\ AbsCol(last.piece, last.col, i) \in 0..(last.pre.cols - 1)
        /\ AbsRow(last.piece, last.row, i) \in 0..(last.pre.rows - 1)
        /\ shapeInCell(last.pre, AbsRow(last.piece, last.row, i),
                       AbsCol(last.piece, last.col, i)) # N}

\* C37 as claimed: testAndPlace returns TOUCH whenever a cell of the piece
\* overlaps a cell that is not empty, the overlap being tested before the
\* left and the right margin; a position that overlaps a landed cell and
\* crosses a side margin gives TOUCH.
C37_TouchBeforeMargins ==
    (Placed /\ Overlapping # {}) => last.ret = TOUCH

(***************************************************************************)
(* SpecSpawn: the main window has made its Game on the main board of 22    *)
(* rows and 10 columns; Play is clicked, and hard drops and timer events   *)
(* bring the next pieces.                                                  *)
(***************************************************************************)
SpawnEvents == 5

InitSpawn ==
    /\ \E shuffled \in make_bag :
          LET g == Game_init(MainRows, MainCols, 0, shuffled)
          IN  Holds(g) /\ toolbar = enableButtons(g)
    /\ PieceIdle /\ last = NoCall

NextSpawn ==
    \/ PlayActionStep(SpawnEvents)
    \/ TimerEventStep(SpawnEvents)
    \/ KeyPressEventStep(SpawnEvents, {"hard_drop"})

SpecSpawn == InitSpawn /\ [][NextSpawn]_vars

\* The columns of the main board that the cells of the piece in play are in.
PieceColumns == {AbsCol(board._current, board._col, i) : i \in 0..3}

\* C38 as claimed: a piece is spawned with its cell (0,0) at row 1, column 4
\* of the board of 22 rows and 10 columns, so that the O is in columns 4-5,
\* the I in columns 3-6 and every other shape in columns 3-5.
C38_SpawnColumns ==
    (SpawnCalled /\ ~game.isOver /\ board.rows = 22 /\ board.cols = 10) =>
        /\ board._row = 1 /\ board._col = 4
        /\ PieceColumns = (CASE board._current.t_name = O -> 4..5
                             [] board._current.t_name = I -> 3..6
                             [] OTHER -> 3..5)

(***************************************************************************)
(* standard.py: the Board keeps its cells in the list board, row y of      *)
(* Board.Rows rows at y * Board.Columns, with row 0 at the bottom of the   *)
(* window.  The operators take the list with the numbers of rows and of    *)
(* columns.                                                                *)
(***************************************************************************)

\* standard.py Board.shapeAt and Board.setShapeAt
shapeAt(cells, ncolumns, x, y) == cells[(y * ncolumns) + x + 1]
setShapeAt(cells, ncolumns, x, y, shape) ==
    [cells EXCEPT ![(y * ncolumns) + x + 1] = shape]

\* The first loop of removeFullLines: for i in range(Rows), the rows in
\* which all Columns cells are not NO_T_mo, from row i on.
RECURSIVE ScanLines(_, _, _, _)
ScanLines(cells, nrows, ncolumns, i) ==
    IF i >= nrows THEN <<>>
    ELSE LET n == Cardinality({j \in 0..(ncolumns - 1) :
                                  shapeAt(cells, ncolumns, j, i) # N})
         IN  (IF n = ncolumns THEN <<i>> ELSE <<>>)
             \o ScanLines(cells, nrows, ncolumns, i + 1)

\* list.reverse()
Reversed(s) == [i \in 1..Len(s) |-> s[Len(s) + 1 - i]]

\* for l in range(Columns): setShapeAt(l, k, shapeAt(l, k + 1)), from
\* column l on.
RECURSIVE CopyRow(_, _, _, _)
CopyRow(cells, ncolumns, k, l) ==
    IF l >= ncolumns THEN cells
    ELSE CopyRow(setShapeAt(cells, ncolumns, l, k,
                            shapeAt(cells, ncolumns, l, k + 1)),
                 ncolumns, k, l + 1)

\* for k in range(m, Rows-1): row k takes the cells of row k + 1; k is the
\* next row to write.
RECURSIVE CopyRowsDown(_, _, _, _)
CopyRowsDown(cells, nrows, ncolumns, k) ==
    IF k >= nrows - 1 THEN cells
    ELSE CopyRowsDown(CopyRow(cells, ncolumns, k, 0), nrows, ncolumns, k + 1)

\* for m in rowsToRemove; j is the place in rowsToRemove of the next row.
RECURSIVE RemoveLines(_, _, _, _, _)
RemoveLines(cells, nrows, ncolumns, rowsToRemove, j) ==
    IF j > Len(rowsToRemove) THEN cells
    ELSE RemoveLines(CopyRowsDown(cells, nrows, ncolumns, rowsToRemove[j]),
                     nrows, ncolumns, rowsToRemove, j + 1)

\* standard.py Board.removeFullLines: the list of cells after the call and
\* the number of rows added to completedLines.
removeFullLines(cells, nrows, ncolumns) ==
    LET rowsToRemove == Reversed(ScanLines(cells, nrows, ncolumns, 0))
    IN  [board   |-> RemoveLines(cells, nrows, ncolumns, rowsToRemove, 1),
         removed |-> Len(rowsToRemove)]

\* The cells of a board with its rows in the opposite order: row r takes
\* the place of row nrows - 1 - r.
Mirrored(cells, nrows, ncolumns) ==
    [i \in 1..Len(cells) |->
        cells[(nrows - 1 - ((i - 1) \div ncolumns)) * ncolumns
              + ((i - 1) % ncolumns) + 1]]

\* C39 as claimed: removeFullLines of standard.py, whose rows are numbered
\* from the bottom, does to a board what winnow of polished.py does to the
\* board with the rows in the opposite order: the same rows are removed,
\* the rows above them come down, and the rows vacated at the top are
\* empty, also when the topmost row is occupied.
C39_RemoveFullLinesAsWinnow ==
    Winnowed =>
        LET res == removeFullLines(
                       Mirrored(last.pre.cells, last.pre.rows, last.pre.cols),
                       last.pre.rows, last.pre.cols)
        IN  /\ res.removed = last.ret
            /\ Mirrored(res.board, last.pre.rows, last.pre.cols) = board.cells

====
